---- MODULE Spec2Model ----
(***************************************************************************)
(* A model of the evaluation core of mini_spreadsheet: the tokenizer, the  *)
(* AST builder, the evaluator, the dependency graph and the sheet engine   *)
(* (src/src/spreadsheet.rs and src/src/spreadsheet/parser/...).            *)
(*                                                                         *)
(* A text is a sequence of one-character strings.  An Index is the pair    *)
(* <<x, y>>.  A Number is the exact fraction n/d (d > 0) or, with d = 0,   *)
(* one of the IEEE specials +inf (n = 1), -inf (n = -1) and NaN (n = 0).   *)
(***************************************************************************)
EXTENDS Integers, Sequences, FiniteSets, TLC

(***************************************************************************)
(* Bounds of the model.                                                    *)
(***************************************************************************)
\* cap on the number of stale edges stored in the graph: an insert on a live
\* address keeps the edges of the old formula, so the adjacency lists can
\* grow for ever
MaxStale == 0

\* cap on the number of edges of the graphs built by the operations of
\* DependancyGraph alone
MaxEdges == 4

\* the longest text given to tokenize_expression on its own
MaxInput == 3

\* the last column and the last row rendered to a name and parsed back
MaxColumn == 703

MaxRow == 10

(***************************************************************************)
(* State.                                                                  *)
(*   cells           SpreadSheet.cells: Index -> Cell, on the live indices *)
(*   allows_compute  DependancyGraph.allows_compute: Index -> list of the  *)
(*                   indices whose formulas read it                        *)
(*   overflow_checks whether the build traps integer overflow (debug) or   *)
(*                   wraps (release); fixed for a run                      *)
(*   status          "running", or "panicked" once an operation has        *)
(*                   panicked, or "never_returns" once one has entered a   *)
(*                   loop it cannot leave; nothing runs after either       *)
(*   stopped_in      the operation that panicked or never returned         *)
(*   input           the argument of a function that is called on its own, *)
(*                   outside any sheet: the characters given to            *)
(*                   tokenize_expression, or the index <<x, y>> to render  *)
(*   output          what the calls made on input have returned so far, in *)
(*                   the order of the calls                                *)
(***************************************************************************)
VARIABLES cells, allows_compute, overflow_checks, status, stopped_in,
          input, output

vars ==
    <<cells, allows_compute, overflow_checks, status, stopped_in, input, output>>

(***************************************************************************)
(* Characters.                                                             *)
(***************************************************************************)
AsciiUpper ==
    {"A", "B", "C", "D", "E", "F", "G", "H", "I", "J", "K", "L", "M",
     "N", "O", "P", "Q", "R", "S", "T", "U", "V", "W", "X", "Y", "Z"}

AsciiLower ==
    {"a", "b", "c", "d", "e", "f", "g", "h", "i", "j", "k", "l", "m",
     "n", "o", "p", "q", "r", "s", "t", "u", "v", "w", "x", "y", "z"}

AsciiDigit == {"0", "1", "2", "3", "4", "5", "6", "7", "8", "9"}

\* letters outside ASCII, written by their code points
OtherUpper == {"U+00C9"}

OtherLower == {"U+00E9"}

is_uppercase(c) == c \in AsciiUpper \cup OtherUpper

is_lowercase(c) == c \in AsciiLower \cup OtherLower

is_ascii_digit(c) == c \in AsciiDigit

DigitVal(c) ==
    CASE c = "0" -> 0 [] c = "1" -> 1 [] c = "2" -> 2 [] c = "3" -> 3
      [] c = "4" -> 4 [] c = "5" -> 5 [] c = "6" -> 6 [] c = "7" -> 7
      [] c = "8" -> 8 [] c = "9" -> 9

AlphabetSeq ==
    <<"A", "B", "C", "D", "E", "F", "G", "H", "I", "J", "K", "L", "M",
      "N", "O", "P", "Q", "R", "S", "T", "U", "V", "W", "X", "Y", "Z">>

\* c as usize - 'A' as usize + 1
LetterVal(c) == CHOOSE i \in 1..26 : AlphabetSeq[i] = c

(***************************************************************************)
(* Numbers (f64, kept exact).                                              *)
(***************************************************************************)
Abs(n) == IF n < 0 THEN -n ELSE n

Sign(n) == IF n < 0 THEN -1 ELSE IF n > 0 THEN 1 ELSE 0

RECURSIVE Gcd(_, _)
Gcd(a, b) == IF b = 0 THEN a ELSE Gcd(b, a % b)

RECURSIVE Pow10(_)
Pow10(k) == IF k = 0 THEN 1 ELSE 10 * Pow10(k - 1)

\* the fraction n/d in lowest terms; d = 0 gives +inf, -inf or NaN
Frac(n, d) ==
    IF d = 0 THEN [n |-> Sign(n), d |-> 0]
    ELSE LET g == Gcd(Abs(n), Abs(d))
             s == IF d < 0 THEN -1 ELSE 1
         IN  [n |-> (s * n) \div g, d |-> (s * d) \div g]

IsNaN(a) == a.d = 0 /\ a.n = 0

IsInf(a) == a.d = 0 /\ a.n # 0

FAdd(a, b) ==
    IF IsNaN(a) \/ IsNaN(b) THEN Frac(0, 0)
    ELSE IF IsInf(a) /\ IsInf(b) THEN (IF a.n = b.n THEN a ELSE Frac(0, 0))
    ELSE IF IsInf(a) THEN a
    ELSE IF IsInf(b) THEN b
    ELSE Frac(a.n * b.d + b.n * a.d, a.d * b.d)

FNeg(a) == [n |-> -a.n, d |-> a.d]

FSub(a, b) == FAdd(a, FNeg(b))

FMul(a, b) ==
    IF IsNaN(a) \/ IsNaN(b) THEN Frac(0, 0)
    ELSE IF IsInf(a) \/ IsInf(b) THEN Frac(Sign(a.n) * Sign(b.n), 0)
    ELSE Frac(a.n * b.n, a.d * b.d)

FDiv(a, b) ==
    IF IsNaN(a) \/ IsNaN(b) THEN Frac(0, 0)
    ELSE IF IsInf(a) THEN (IF IsInf(b) THEN Frac(0, 0)
                           ELSE Frac(a.n * (IF b.n < 0 THEN -1 ELSE 1), 0))
    ELSE IF IsInf(b) THEN Frac(0, 1)
    ELSE Frac(a.n * b.d * (IF b.n < 0 THEN -1 ELSE 1), a.d * Abs(b.n))

(***************************************************************************)
(* Values, compute errors and results (src/src/common_types.rs).           *)
(* Every value has the same fields, so that any two can be compared.       *)
(***************************************************************************)
Number(q) == [k |-> "Number", n |-> q.n, d |-> q.d, s |-> <<>>, b |-> FALSE]

Num(i) == Number(Frac(i, 1))

Text(s) == [k |-> "Text", n |-> 0, d |-> 1, s |-> s, b |-> FALSE]

Bool(b) == [k |-> "Bool", n |-> 0, d |-> 1, s |-> <<>>, b |-> b]

NumOf(v) == [n |-> v.n, d |-> v.d]

NoValue == [k |-> "", n |-> 0, d |-> 1, s |-> <<>>, b |-> FALSE]

\* Result<Value, ComputeError>: Ok(v), or Err(e) with its message
Ok(v) == [ok |-> TRUE, v |-> v, e |-> "", msg |-> <<>>]

Err(e, msg) == [ok |-> FALSE, v |-> NoValue, e |-> e, msg |-> msg]

Cycle == Err("Cycle", <<>>)

TypeError == Err("TypeError", <<>>)

UnknownFunction == Err("UnknownFunction", <<>>)

\* the message is a fixed sentence around the name; msg keeps the name
UnfindableReference(name) == Err("UnfindableReference", name)

ParseError(msg) == Err("ParseError", msg)

(***************************************************************************)
(* Tokens (src/src/common_types.rs).  p is the payload: the text of a      *)
(* CellName or FunctionName, the fraction of a Number, the flag of a Bool. *)
(***************************************************************************)
Tok(t, p) == [t |-> t, p |-> p]

get_precedence(t) ==
    CASE t = "Or" -> 0
      [] t = "And" -> 1
      [] t \in {"Equals", "NotEquals", "GreaterThan", "LessThan",
                "GreaterEquals", "LessEquals"} -> 2
      [] t \in {"Plus", "Minus"} -> 3
      [] t \in {"Division", "Multiply"} -> 4
      [] t = "Not" -> 5
      [] OTHER -> 0

(***************************************************************************)
(* Tokenizer (src/src/spreadsheet/parser/tokenizer.rs).  The position i    *)
(* is the 1-based index of the next character.                             *)
(***************************************************************************)
is_done(chars, i) == i > Len(chars)

\* the first position from i on whose character is not in S
RECURSIVE RunEnd(_, _, _)
RunEnd(chars, i, S) ==
    IF i <= Len(chars) /\ chars[i] \in S THEN RunEnd(chars, i + 1, S) ELSE i

skip_whitespace(chars, i) == RunEnd(chars, i, {" ", "\t", "\n", "\r", "\f"})

TokOk(tok, i) == [ok |-> TRUE, tok |-> tok, i |-> i, err |-> "", arg |-> <<>>]

TokErr(err, arg) ==
    [ok |-> FALSE, tok |-> Tok("", <<>>), i |-> 0, err |-> err, arg |-> arg]

Count(s, c) == Cardinality({i \in 1..Len(s) : s[i] = c})

RECURSIVE DigitsVal(_)
DigitsVal(s) ==
    IF s = <<>> THEN 0
    ELSE 10 * DigitsVal(SubSeq(s, 1, Len(s) - 1)) + DigitVal(s[Len(s)])

AllDigits(s) == \A i \in 1..Len(s) : s[i] \in AsciiDigit

\* digits [ "." digits ]  with at least one digit overall
IsMantissa(s) ==
    /\ \A i \in 1..Len(s) : s[i] \in AsciiDigit \cup {"."}
    /\ Count(s, ".") <= 1
    /\ \E i \in 1..Len(s) : s[i] \in AsciiDigit

MantissaVal(s) ==
    LET dot == IF Count(s, ".") = 0 THEN Len(s) + 1
               ELSE CHOOSE i \in 1..Len(s) : s[i] = "."
        int == SubSeq(s, 1, dot - 1)
        frac == SubSeq(s, dot + 1, Len(s))
    IN  Frac(DigitsVal(int) * Pow10(Len(frac)) + DigitsVal(frac),
             Pow10(Len(frac)))

\* str::parse::<f64> on an unsigned decimal text: mantissa [ e [+-] digits ]
ExpAt(s) ==
    IF \E i \in 1..Len(s) : s[i] \in {"e", "E"}
    THEN CHOOSE i \in 1..Len(s) :
            /\ s[i] \in {"e", "E"}
            /\ \A j \in 1..(i - 1) : s[j] \notin {"e", "E"}
    ELSE Len(s) + 1

ExpDigits(s) ==
    LET e == SubSeq(s, ExpAt(s) + 1, Len(s))
    IN  IF e # <<>> /\ e[1] \in {"+", "-"} THEN Tail(e) ELSE e

ExpNegative(s) ==
    LET e == SubSeq(s, ExpAt(s) + 1, Len(s))
    IN  e # <<>> /\ e[1] = "-"

IsF64(s) ==
    /\ IsMantissa(SubSeq(s, 1, ExpAt(s) - 1))
    /\ ExpAt(s) <= Len(s) => (ExpDigits(s) # <<>> /\ AllDigits(ExpDigits(s)))

\* the mantissa m scaled by the power of ten p
ScaleF64(m, p, negative) ==
    IF negative THEN Frac(m.n, m.d * p) ELSE Frac(m.n * p, m.d)

ParseF64(s) ==
    ScaleF64(MantissaVal(SubSeq(s, 1, ExpAt(s) - 1)),
             IF ExpAt(s) <= Len(s) THEN Pow10(DigitsVal(ExpDigits(s))) ELSE 1,
             ExpNegative(s))

parse_cell_name_or_bool(chars, i) ==
    LET j == RunEnd(chars, i, AsciiUpper)
        letters == SubSeq(chars, i, j - 1)
        k == RunEnd(chars, j, AsciiDigit)
    IN  IF letters = <<"T", "R", "U", "E">> THEN TokOk(Tok("Bool", TRUE), j)
        ELSE IF letters = <<"F", "A", "L", "S", "E">>
             THEN TokOk(Tok("Bool", FALSE), j)
        ELSE IF letters = <<>> THEN TokErr("InvalidCellName", <<>>)
        ELSE IF k = j THEN TokErr("InvalidCellName", letters)
        ELSE TokOk(Tok("CellName", SubSeq(chars, i, k - 1)), k)

parse_operator(chars, i) ==
    LET c == chars[i]
    IN  TokOk(Tok(CASE c = "+" -> "Plus"
                    [] c = "-" -> "Minus"
                    [] c = "/" -> "Division"
                    [] c = "*" -> "Multiply"
                    [] c = "(" -> "LParen"
                    [] c = ")" -> "RParen"
                    [] c = ":" -> "Colon"
                    [] c = "," -> "Comma", <<>>), i + 1)

\* number.parse::<f64>() on the characters read, which end before j
NumberToken(number, j) ==
    IF IsF64(number) THEN TokOk(Tok("Number", ParseF64(number)), j)
    ELSE TokErr("InvalidNumber", number)

NumberRun(chars, i, j) == NumberToken(SubSeq(chars, i, j - 1), j)

parse_number(chars, i) ==
    NumberRun(chars, i, RunEnd(chars, i, AsciiDigit \cup {"."}))

parse_function_name(chars, i) ==
    LET j == RunEnd(chars, i, AsciiUpper \cup AsciiLower \cup {"_"})
    IN  TokOk(Tok("FunctionName", SubSeq(chars, i, j - 1)), j)

parse_logical_operator(chars, i) ==
    LET first == chars[i]
        next == IF i + 1 <= Len(chars) THEN chars[i + 1] ELSE ""
    IN  CASE first = "=" ->
               IF next = "=" THEN TokOk(Tok("Equals", <<>>), i + 2)
               ELSE TokErr("UnexpectedCharacter", <<"=">>)
          [] first = "!" ->
               IF next = "=" THEN TokOk(Tok("NotEquals", <<>>), i + 2)
               ELSE TokOk(Tok("Not", <<>>), i + 1)
          [] first = ">" ->
               IF next = "=" THEN TokOk(Tok("GreaterEquals", <<>>), i + 2)
               ELSE TokOk(Tok("GreaterThan", <<>>), i + 1)
          [] first = "<" ->
               IF next = "=" THEN TokOk(Tok("LessEquals", <<>>), i + 2)
               ELSE TokOk(Tok("LessThan", <<>>), i + 1)
          [] first = "&" ->
               IF next = "&" THEN TokOk(Tok("And", <<>>), i + 2)
               ELSE TokErr("UnexpectedCharacter", <<"&">>)
          [] first = "|" ->
               IF next = "|" THEN TokOk(Tok("Or", <<>>), i + 2)
               ELSE TokErr("UnexpectedCharacter", <<"|">>)

TokensOk(tokens) == [ok |-> TRUE, tokens |-> tokens, err |-> "", arg |-> <<>>]

TokensErr(err, arg) == [ok |-> FALSE, tokens |-> <<>>, err |-> err, arg |-> arg]

\* the while loop of tokenize_expression; a token that consumes no
\* character leaves the loop where it was, and the loop never ends
RECURSIVE tokenize_loop(_, _, _)

\* the match on the next character
NextToken(chars, i, c) ==
    CASE c \in {"+", "-", "/", "*", "(", ")", ":", ","} -> parse_operator(chars, i)
      [] c \in {"=", "!", ">", "<", "&", "|"} -> parse_logical_operator(chars, i)
      [] is_uppercase(c) -> parse_cell_name_or_bool(chars, i)
      [] is_lowercase(c) -> parse_function_name(chars, i)
      [] is_ascii_digit(c) -> parse_number(chars, i)
      [] OTHER -> TokErr("UnexpectedCharacter", <<c>>)

\* `?` on the token r, the push, and the rest of the loop
PushToken(chars, i, expr_tokens, r) ==
    IF ~r.ok THEN TokensErr(r.err, r.arg)
    ELSE IF r.i = i THEN TokensErr("NeverReturns", <<chars[i]>>)
    ELSE tokenize_loop(chars, skip_whitespace(chars, r.i),
                       Append(expr_tokens, r.tok))

tokenize_loop(chars, i, expr_tokens) ==
    IF is_done(chars, i) THEN TokensOk(expr_tokens)
    ELSE PushToken(chars, i, expr_tokens, NextToken(chars, i, chars[i]))

tokenize_expression(chars) ==
    tokenize_loop(chars, skip_whitespace(chars, 1), <<>>)

(***************************************************************************)
(* AST (src/src/common_types.rs).  Every node has the same fields: name is *)
(* the cell name, the function name or the first corner of a range, to the *)
(* second corner of a range, kids the operands or the arguments.           *)
(***************************************************************************)
AstCellName(name) ==
    [k |-> "CellName", name |-> name, to |-> <<>>, value |-> NoValue,
     op |-> "", kids |-> <<>>]

AstValue(v) ==
    [k |-> "Value", name |-> <<>>, to |-> <<>>, value |-> v,
     op |-> "", kids |-> <<>>]

AstBinaryOp(op, left, right) ==
    [k |-> "BinaryOp", name |-> <<>>, to |-> <<>>, value |-> NoValue,
     op |-> op, kids |-> <<left, right>>]

AstUnaryOp(op, expr) ==
    [k |-> "UnaryOp", name |-> <<>>, to |-> <<>>, value |-> NoValue,
     op |-> op, kids |-> <<expr>>]

AstRange(from, to) ==
    [k |-> "Range", name |-> from, to |-> to, value |-> NoValue,
     op |-> "", kids |-> <<>>]

AstFunctionCall(name, arguments) ==
    [k |-> "FunctionCall", name |-> name, to |-> <<>>, value |-> NoValue,
     op |-> "", kids |-> arguments]

NoAst == AstValue(NoValue)

(***************************************************************************)
(* AST builder (src/src/spreadsheet/parser/ast_creator.rs).  pos is the    *)
(* position of the peekable iterator: the index of the next token.  An     *)
(* error keeps the position, because parse looks for a left-over token     *)
(* before it looks at the result.                                          *)
(***************************************************************************)
POk(ast, pos) == [ok |-> TRUE, ast |-> ast, args |-> <<>>, pos |-> pos, err |-> ""]

PArgs(args, pos) == [ok |-> TRUE, ast |-> NoAst, args |-> args, pos |-> pos, err |-> ""]

PErr(err, pos) == [ok |-> FALSE, ast |-> NoAst, args |-> <<>>, pos |-> pos, err |-> err]

\* the type of the token that next() or peek() returns; "" for None
TokAt(tokens, pos) == IF pos <= Len(tokens) THEN tokens[pos].t ELSE ""

\* the position after next()
Adv(tokens, pos) == IF pos <= Len(tokens) THEN pos + 1 ELSE pos

peek_operator(tokens, pos) ==
    IF TokAt(tokens, pos) \in
          {"Plus", "Minus", "Multiply", "Division", "Equals", "NotEquals",
           "GreaterThan", "LessThan", "GreaterEquals", "LessEquals",
           "And", "Or", "Not"}
    THEN TokAt(tokens, pos) ELSE ""

expect_token(tokens, pos, expected) ==
    IF TokAt(tokens, pos) = expected THEN POk(NoAst, pos + 1)
    ELSE PErr("UnexpectedToken", Adv(tokens, pos))

RECURSIVE parse_expression(_, _, _)
RECURSIVE parse_expression_loop(_, _, _, _)
RECURSIVE parse_primary(_, _)
RECURSIVE parse_function_arguements(_, _, _, _)

\* `?` on the primary expression, then the while loop
AfterPrimary(tokens, left, min_precedence) ==
    IF ~left.ok THEN left
    ELSE parse_expression_loop(tokens, left.pos, left.ast, min_precedence)

parse_expression(tokens, pos, min_precedence) ==
    AfterPrimary(tokens, parse_primary(tokens, pos), min_precedence)

\* the while loop without the break on a lower precedence
parse_expression_loop_unranked(tokens, pos, left, min_precedence) ==
    LET op == peek_operator(tokens, pos)
        precedence == get_precedence(op)
    IN  IF op = "" THEN POk(left, pos)
        ELSE IF op = "Not"
             THEN parse_expression_loop(tokens, pos + 1,
                                        AstUnaryOp(op, left), min_precedence)
        ELSE LET right == parse_expression(tokens, pos + 1, precedence + 1)
             IN  IF ~right.ok THEN right
                 ELSE parse_expression_loop(tokens, right.pos,
                          AstBinaryOp(op, left, right.ast), min_precedence)

\* the while loop with the right operand parsed at the operator's own level
parse_expression_loop_same_level(tokens, pos, left, min_precedence) ==
    LET op == peek_operator(tokens, pos)
        precedence == get_precedence(op)
    IN  IF op = "" THEN POk(left, pos)
        ELSE IF precedence < min_precedence THEN POk(left, pos)
        ELSE IF op = "Not"
             THEN parse_expression_loop(tokens, pos + 1,
                                        AstUnaryOp(op, left), min_precedence)
        ELSE LET right == parse_expression(tokens, pos + 1, precedence)
             IN  IF ~right.ok THEN right
                 ELSE parse_expression_loop(tokens, right.pos,
                          AstBinaryOp(op, left, right.ast), min_precedence)

\* the while loop of parse_expression
parse_expression_loop(tokens, pos, left, min_precedence) ==
    LET op == peek_operator(tokens, pos)
        precedence == get_precedence(op)
    IN  IF op = "" THEN POk(left, pos)
        ELSE IF precedence < min_precedence THEN POk(left, pos)
        ELSE IF op = "Not"
             THEN parse_expression_loop(tokens, pos + 1,
                                        AstUnaryOp(op, left), min_precedence)
        ELSE LET right == parse_expression(tokens, pos + 1, precedence + 1)
             IN  IF ~right.ok THEN right
                 ELSE parse_expression_loop(tokens, right.pos,
                          AstBinaryOp(op, left, right.ast), min_precedence)

parse_primary(tokens, pos) ==
    LET t == TokAt(tokens, pos)
    IN  CASE t = "FunctionName" ->
               LET lp == expect_token(tokens, pos + 1, "LParen")
                   arguments == parse_function_arguements(tokens, lp.pos,
                                                          <<>>, FALSE)
               IN  IF ~lp.ok THEN lp
                   ELSE IF ~arguments.ok THEN arguments
                   ELSE POk(AstFunctionCall(tokens[pos].p, arguments.args),
                            arguments.pos)
          [] t = "CellName" ->
               IF TokAt(tokens, pos + 1) = "Colon"
               THEN IF TokAt(tokens, pos + 2) = "CellName"
                    THEN POk(AstRange(tokens[pos].p, tokens[pos + 2].p), pos + 3)
                    ELSE PErr("InvalidRange", Adv(tokens, pos + 2))
               ELSE POk(AstCellName(tokens[pos].p), pos + 1)
          [] t = "Number" -> POk(AstValue(Number(tokens[pos].p)), pos + 1)
          [] t = "LParen" ->
               LET expr == parse_expression(tokens, pos + 1, 0)
               IN  IF ~expr.ok THEN expr
                   ELSE IF TokAt(tokens, expr.pos) = "RParen"
                        THEN POk(expr.ast, expr.pos + 1)
                        ELSE PErr("MismatchedParentheses", Adv(tokens, expr.pos))
          [] t = "Bool" -> POk(AstValue(Bool(tokens[pos].p)), pos + 1)
          [] t = "Not" ->
               LET expr == parse_expression(tokens, pos + 1, get_precedence("Not"))
               IN  IF ~expr.ok THEN expr
                   ELSE POk(AstUnaryOp("Not", expr.ast), expr.pos)
          [] OTHER -> PErr("UnexpectedToken", Adv(tokens, pos))

\* the loop of parse_function_arguements
parse_function_arguements(tokens, pos, arguements, expecting_comma) ==
    IF ~expecting_comma
    THEN LET arg == parse_expression(tokens, pos, 0)
         IN  IF ~arg.ok THEN arg
             ELSE parse_function_arguements(tokens, arg.pos,
                                            Append(arguements, arg.ast), TRUE)
    ELSE LET t == TokAt(tokens, pos)
         IN  CASE t = "Comma" ->
                    parse_function_arguements(tokens, pos + 1, arguements, FALSE)
               [] t = "RParen" -> PArgs(arguements, pos + 1)
               [] t = "" -> PErr("MismatchedParentheses", pos)
               [] OTHER -> PErr("UnexpectedToken", pos + 1)

\* ASTCreator::parse
\* the check for a left-over token comes before the result is looked at
LeftOver(tokens, result) ==
    IF result.pos <= Len(tokens) THEN PErr("UnexpectedToken", result.pos + 1)
    ELSE result

parse(tokens) == LeftOver(tokens, parse_expression(tokens, 1, 0))

(***************************************************************************)
(* Built-in functions                                                      *)
(* (src/src/spreadsheet/parser/ast_resolver/builtin_functions.rs).         *)
(***************************************************************************)
InvalidArgument == Err("InvalidArgument", <<>>)

AllNumbers(args) == \A i \in 1..Len(args) : args[i].k = "Number"

FLess(a, b) ==
    IF IsNaN(a) \/ IsNaN(b) THEN FALSE
    ELSE IF a.d = 0 /\ b.d = 0 THEN a.n < b.n
    ELSE IF a.d = 0 THEN a.n < 0
    ELSE IF b.d = 0 THEN b.n > 0
    ELSE a.n * b.d < b.n * a.d

RECURSIVE FSum(_)
FSum(args) ==
    IF args = <<>> THEN Frac(0, 1)
    ELSE FAdd(FSum(SubSeq(args, 1, Len(args) - 1)), NumOf(args[Len(args)]))

RECURSIVE FProduct(_)
FProduct(args) ==
    IF args = <<>> THEN Frac(1, 1)
    ELSE FMul(FProduct(SubSeq(args, 1, Len(args) - 1)), NumOf(args[Len(args)]))

\* f64::max and f64::min return the other operand when one is NaN
RECURSIVE FMax(_)
FMax(args) ==
    IF Len(args) = 1 THEN NumOf(args[1])
    ELSE LET m == FMax(SubSeq(args, 1, Len(args) - 1))
             x == NumOf(args[Len(args)])
         IN  IF IsNaN(x) THEN m ELSE IF IsNaN(m) \/ FLess(m, x) THEN x ELSE m

RECURSIVE FMin(_)
FMin(args) ==
    IF Len(args) = 1 THEN NumOf(args[1])
    ELSE LET m == FMin(SubSeq(args, 1, Len(args) - 1))
             x == NumOf(args[Len(args)])
         IN  IF IsNaN(x) THEN m ELSE IF IsNaN(m) \/ FLess(x, m) THEN x ELSE m

sum(args) == IF AllNumbers(args) THEN Ok(Number(FSum(args))) ELSE InvalidArgument

product(args) ==
    IF AllNumbers(args) THEN Ok(Number(FProduct(args))) ELSE InvalidArgument

\* the fold starts from f64::MIN, which no number of the model goes below
max(args) ==
    IF args = <<>> \/ ~AllNumbers(args) THEN InvalidArgument
    ELSE Ok(Number(FMax(args)))

min(args) ==
    IF args = <<>> \/ ~AllNumbers(args) THEN InvalidArgument
    ELSE Ok(Number(FMin(args)))

average(args) ==
    IF args = <<>> \/ ~AllNumbers(args) THEN InvalidArgument
    ELSE Ok(Number(FDiv(FSum(args), Frac(Len(args), 1))))

count(args) ==
    IF AllNumbers(args) THEN Ok(Num(Len(args))) ELSE InvalidArgument

length(args) ==
    IF Len(args) # 1 THEN InvalidArgument
    ELSE IF args[1].k = "Text" THEN Ok(Num(Len(args[1].s)))
    ELSE InvalidArgument

if_func(args) ==
    IF Len(args) # 3 THEN InvalidArgument
    ELSE IF args[1].k = "Bool" THEN (IF args[1].b THEN Ok(args[2]) ELSE Ok(args[3]))
    ELSE InvalidArgument

\* f64::round: to the nearest integer, halves away from zero
FRound(a) ==
    IF a.d = 0 THEN a
    ELSE Frac(Sign(a.n) * ((2 * Abs(a.n) + a.d) \div (2 * a.d)), 1)

round(args) ==
    IF Len(args) # 1 THEN InvalidArgument
    ELSE IF args[1].k = "Number" THEN Ok(Number(FRound(NumOf(args[1]))))
    ELSE InvalidArgument

\* a parsed call always has an argument, so the draw is never made
rand_func(args) == IF args # <<>> THEN InvalidArgument ELSE Ok(Num(0))

RECURSIVE FPowNat(_, _)
FPowNat(a, k) == IF k = 0 THEN Frac(1, 1) ELSE FMul(a, FPowNat(a, k - 1))

\* powf for the exponents the model writes: finite integers
power(args) ==
    IF Len(args) # 2 THEN InvalidArgument
    ELSE IF args[1].k = "Number" /\ args[2].k = "Number"
         THEN LET e == NumOf(args[2])
              IN  IF e.n >= 0 THEN Ok(Number(FPowNat(NumOf(args[1]), e.n)))
                  ELSE Ok(Number(FDiv(Frac(1, 1), FPowNat(NumOf(args[1]), -e.n))))
         ELSE InvalidArgument

FuncNames ==
    {<<"s", "u", "m">>, <<"p", "r", "o", "d", "u", "c", "t">>,
     <<"m", "a", "x">>, <<"m", "i", "n">>,
     <<"a", "v", "e", "r", "a", "g", "e">>, <<"c", "o", "u", "n", "t">>,
     <<"l", "e", "n", "g", "t", "h">>, <<"i", "f">>,
     <<"r", "o", "u", "n", "d">>, <<"r", "a", "n", "d">>, <<"p", "o", "w">>}

\* get_func(name) is Some for the names of FuncNames; this applies it
apply_func(name, args) ==
    CASE name = <<"s", "u", "m">> -> sum(args)
      [] name = <<"p", "r", "o", "d", "u", "c", "t">> -> product(args)
      [] name = <<"m", "a", "x">> -> max(args)
      [] name = <<"m", "i", "n">> -> min(args)
      [] name = <<"a", "v", "e", "r", "a", "g", "e">> -> average(args)
      [] name = <<"c", "o", "u", "n", "t">> -> count(args)
      [] name = <<"l", "e", "n", "g", "t", "h">> -> length(args)
      [] name = <<"i", "f">> -> if_func(args)
      [] name = <<"r", "o", "u", "n", "d">> -> round(args)
      [] name = <<"r", "a", "n", "d">> -> rand_func(args)
      [] name = <<"p", "o", "w">> -> power(args)

(***************************************************************************)
(* Value arithmetic (src/src/common_types.rs, impl Value): None is         *)
(* modelled by the TypeError the resolver turns it into.                   *)
(***************************************************************************)
add(a, b) ==
    IF a.k = "Number" /\ b.k = "Number" THEN Ok(Number(FAdd(NumOf(a), NumOf(b))))
    ELSE IF a.k = "Text" /\ b.k = "Text" THEN Ok(Text(a.s \o b.s))
    ELSE TypeError

sub(a, b) ==
    IF a.k = "Number" /\ b.k = "Number" THEN Ok(Number(FSub(NumOf(a), NumOf(b))))
    ELSE TypeError

div(a, b) ==
    IF a.k = "Number" /\ b.k = "Number" THEN Ok(Number(FDiv(NumOf(a), NumOf(b))))
    ELSE TypeError

mult(a, b) ==
    IF a.k = "Number" /\ b.k = "Number" THEN Ok(Number(FMul(NumOf(a), NumOf(b))))
    ELSE TypeError

(***************************************************************************)
(* Evaluator (src/src/spreadsheet/parser/ast_resolver.rs).                 *)
(***************************************************************************)
\* usize::MAX (2^64 - 1), the value 0 - 1 wraps to; no other index of the
\* model comes near it, so the largest integer TLC holds stands for it
UsizeMax == 2147483647

\* Option::None of a computed value
None == Err("None", <<>>)

IsSome(r) == r.e # "None"

\* a panic unwinds through every caller, as an Err does through `?`
Panic(msg) == Err("panic", <<msg>>)

IsPanic(r) == r.e = "panic"

\* the characters before the first digit: the letters of a CellName token
LettersOf(cell_name) ==
    SubSeq(cell_name, 1, RunEnd(cell_name, 1, AsciiUpper) - 1)

RECURSIVE ColumnVal(_)
ColumnVal(letters) ==
    IF letters = <<>> THEN 0
    ELSE ColumnVal(SubSeq(letters, 1, Len(letters) - 1)) * 26
         + LetterVal(letters[Len(letters)])

\* x - 1 and y - 1 on usize.  underflow tells that one of them is 0 - 1:
\* with overflow checks the subtraction panics, without them it wraps, and
\* idx is the wrapped index
IndexOf(x, y) ==
    [underflow |-> x = 0 \/ y = 0,
     idx |-> <<IF x = 0 THEN UsizeMax ELSE x - 1,
               IF y = 0 THEN UsizeMax ELSE y - 1>>]

\* the column from the letters, the row from the digits after them
SplitName(cell_name, letters) ==
    IndexOf(ColumnVal(letters),
            DigitsVal(SubSeq(cell_name, Len(letters) + 1, Len(cell_name))))

get_cell_idx(cell_name) == SplitName(cell_name, LettersOf(cell_name))

\* whether a call of get_cell_idx that met an underflow panicked
Trapped(underflow) == underflow /\ overflow_checks

\* the indices of the rectangle, column by column; a rectangle that runs up
\* to usize::MAX cannot be collected: the process runs out of memory
\* the number of indices from a to b, both included
Span(a, b) == IF a <= b THEN b - a + 1 ELSE 0

\* the w columns and h rows that start at the index start
Columns(start, w, h) ==
    [i \in 1..(w * h) |-> <<start[1] + ((i - 1) \div h), start[2] + ((i - 1) % h)>>]

Rectangle(start, end) ==
    IF Trapped(start.underflow \/ end.underflow)
    THEN [panic |-> TRUE, indices |-> <<>>]
    ELSE IF /\ Span(start.idx[1], end.idx[1]) > 0
            /\ Span(start.idx[2], end.idx[2]) > 0
            /\ \E i \in 1..2 : end.idx[i] = UsizeMax /\ start.idx[i] # UsizeMax
         THEN [panic |-> TRUE, indices |-> <<>>]
    ELSE [panic |-> FALSE,
          indices |-> Columns(start.idx, Span(start.idx[1], end.idx[1]),
                              Span(start.idx[2], end.idx[2]))]

range_to_indeces(from, to) == Rectangle(get_cell_idx(from), get_cell_idx(to))

\* SpreadSheet::get_computed, which is its VarContext::get_variable
get_computed(cs, index) ==
    IF index \in DOMAIN cs THEN cs[index].computed_value ELSE None

ROk(args) == [ok |-> TRUE, args |-> args, err |-> None]

RErr(err) == [ok |-> FALSE, args |-> <<>>, err |-> err]

\* the loop over a Range argument with the cells in error skipped as the
\* absent ones are
RECURSIVE resolve_range_errors_skipped(_, _, _, _)
resolve_range_errors_skipped(indices, i, cs, resolved_args) ==
    IF i > Len(indices) THEN ROk(resolved_args)
    ELSE LET var == get_computed(cs, indices[i])
         IN  IF ~IsSome(var) \/ ~var.ok
             THEN resolve_range_errors_skipped(indices, i + 1, cs, resolved_args)
             ELSE resolve_range_errors_skipped(indices, i + 1, cs,
                                               Append(resolved_args, var.v))

\* the loop over the indices of a Range argument: absent cells are skipped,
\* the first error met is returned
RECURSIVE resolve_range(_, _, _, _)
resolve_range(indices, i, cs, resolved_args) ==
    IF i > Len(indices) THEN ROk(resolved_args)
    ELSE LET var == get_computed(cs, indices[i])
         IN  IF ~IsSome(var) THEN resolve_range(indices, i + 1, cs, resolved_args)
             ELSE IF ~var.ok THEN RErr(var)
             ELSE resolve_range(indices, i + 1, cs, Append(resolved_args, var.v))

RECURSIVE resolve(_, _)
RECURSIVE resolve_arguments(_, _, _, _)

\* `?` on the values vs of a Range argument, then the next argument
AfterRange(arguments, i, cs, vs) ==
    IF ~vs.ok THEN vs ELSE resolve_arguments(arguments, i + 1, cs, vs.args)

\* a Range argument, whose indices are r
RangeArgument(arguments, i, cs, resolved_args, r) ==
    IF r.panic THEN RErr(Panic("attempt to subtract with overflow"))
    ELSE AfterRange(arguments, i, cs,
                    resolve_range(r.indices, 1, cs, resolved_args))

\* any other argument, which resolved to v
OtherArgument(arguments, i, cs, resolved_args, v) ==
    IF ~v.ok THEN RErr(v)
    ELSE resolve_arguments(arguments, i + 1, cs, Append(resolved_args, v.v))

\* the loop over the arguments of a FunctionCall
resolve_arguments(arguments, i, cs, resolved_args) ==
    IF i > Len(arguments) THEN ROk(resolved_args)
    ELSE IF arguments[i].k = "Range"
         THEN RangeArgument(arguments, i, cs, resolved_args,
                            range_to_indeces(arguments[i].name, arguments[i].to))
    ELSE OtherArgument(arguments, i, cs, resolved_args, resolve(arguments[i], cs))

\* the CellName arm: the cell at the index g of the name
Lookup(name, g, value) ==
    IF Trapped(g.underflow) THEN Panic("attempt to subtract with overflow")
    ELSE IF IsSome(value) THEN value
    ELSE UnfindableReference(name)

\* the FunctionCall arm, once the arguments resolved to a
Call(name, a) ==
    IF ~a.ok THEN a.err
    ELSE IF name \in FuncNames THEN apply_func(name, a.args)
    ELSE UnknownFunction

\* the BinaryOp arm, once both operands resolved
Binary(op, left_resolved, right_resolved) ==
    IF ~left_resolved.ok THEN left_resolved
    ELSE IF ~right_resolved.ok THEN right_resolved
    ELSE CASE op = "Plus" -> add(left_resolved.v, right_resolved.v)
           [] op = "Minus" -> sub(left_resolved.v, right_resolved.v)
           [] op = "Division" -> div(left_resolved.v, right_resolved.v)
           [] op = "Multiply" -> mult(left_resolved.v, right_resolved.v)
           [] OTHER -> Panic("is not a binary operator")

\* ASTResolver::resolve against the cells cs.  The match has no arm for
\* UnaryOp and panics on every binary operator but + - / *
resolve(ast, cs) ==
    CASE ast.k = "Value" -> Ok(ast.value)
      [] ast.k = "CellName" ->
           Lookup(ast.name, get_cell_idx(ast.name),
                  get_computed(cs, get_cell_idx(ast.name).idx))
      [] ast.k = "BinaryOp" ->
           Binary(ast.op, resolve(ast.kids[1], cs), resolve(ast.kids[2], cs))
      [] ast.k = "Range" -> TypeError
      [] ast.k = "FunctionCall" ->
           Call(ast.name, resolve_arguments(ast.kids, 1, cs, <<>>))
      [] ast.k = "UnaryOp" -> Panic("no match arm")

(***************************************************************************)
(* Cells (src/src/common_types.rs) and the cell parser                     *)
(* (src/src/spreadsheet/parser.rs).                                        *)
(***************************************************************************)
\* Option<Result<ParsedCell, ParseError>>
NoParsed ==
    [some |-> FALSE, ok |-> FALSE, kind |-> "", value |-> NoValue,
     ast |-> NoAst, dependencies |-> <<>>, msg |-> <<>>]

ParsedValue(v) ==
    [some |-> TRUE, ok |-> TRUE, kind |-> "Value", value |-> v,
     ast |-> NoAst, dependencies |-> <<>>, msg |-> <<>>]

ParsedExpr(ast, dependencies) ==
    [some |-> TRUE, ok |-> TRUE, kind |-> "Expr", value |-> NoValue,
     ast |-> ast, dependencies |-> dependencies, msg |-> <<>>]

ParsedErr(msg) ==
    [some |-> TRUE, ok |-> FALSE, kind |-> "", value |-> NoValue,
     ast |-> NoAst, dependencies |-> <<>>, msg |-> msg]

\* Cell::from_raw
from_raw(raw) ==
    [raw_representation |-> raw, parsed_representation |-> NoParsed,
     computed_value |-> None, needs_compute |-> TRUE]

CellNameTokens(tokens) == SelectSeq(tokens, LAMBDA t : t.t = "CellName")

\* one index for each CellName token, in token order; a colon adds nothing
find_dependants(tokens) ==
    LET names == CellNameTokens(tokens)
    IN  [underflow |-> \E i \in 1..Len(names) : get_cell_idx(names[i].p).underflow,
         cells |-> [i \in 1..Len(names) |-> get_cell_idx(names[i].p).idx]]

TokenizeErrorMsg(r) ==
    CASE r.err = "UnexpectedCharacter" -> <<"Unexpected characther: ">> \o r.arg
      [] r.err = "InvalidCellName" -> <<"Invalid cell name: ">> \o r.arg
      [] r.err = "InvalidNumber" -> <<"Invalid number format: ">> \o r.arg
      [] OTHER -> <<r.err>>

ASTCreateErrorMsg(err) ==
    CASE err = "UnexpectedToken" -> <<"Unexpected Token">>
      [] err = "MismatchedParentheses" -> <<"Mismatched Parentheses">>
      [] err = "InvalidRange" -> <<"Invalid Range Expression">>

\* what parse_cell does: it returns parsed, or panics, or never returns
\* (hang), or returns parsed unless an underflow of get_cell_idx is trapped
PCell(parsed) ==
    [panic |-> FALSE, hang |-> FALSE, underflow |-> FALSE, parsed |-> parsed]

PCellPanic ==
    [panic |-> TRUE, hang |-> FALSE, underflow |-> FALSE, parsed |-> NoParsed]

PCellHang ==
    [panic |-> FALSE, hang |-> TRUE, underflow |-> FALSE, parsed |-> NoParsed]

PCellUnderflow(parsed) ==
    [panic |-> FALSE, hang |-> FALSE, underflow |-> TRUE, parsed |-> parsed]

\* CellParser::parse_expression: the dependencies are collected from the
\* tokens before the AST is built
\* the result of ASTCreator::parse, with the dependencies found before it
Built(dependencies, ast) ==
    IF ~ast.ok THEN ParsedErr(ASTCreateErrorMsg(ast.err))
    ELSE ParsedExpr(ast.ast, dependencies)

Collected(dependencies, ast) ==
    IF dependencies.underflow THEN PCellUnderflow(Built(dependencies.cells, ast))
    ELSE PCell(Built(dependencies.cells, ast))

Tokenized(tokens) ==
    IF ~tokens.ok
    THEN (IF tokens.err = "NeverReturns" THEN PCellHang
          ELSE PCell(ParsedErr(TokenizeErrorMsg(tokens))))
    ELSE Collected(find_dependants(tokens.tokens), parse(tokens.tokens))

CellParser_parse_expression(s) == Tokenized(tokenize_expression(Tail(s)))

\* CellParser::parse_cell: the parsed representation of the raw text, or a
\* panic (unreachable!() on the empty text)
parse_cell(raw_cell) ==
    IF raw_cell = <<>> THEN PCellPanic
    ELSE IF raw_cell[1] = "=" THEN CellParser_parse_expression(raw_cell)
    ELSE IF is_ascii_digit(raw_cell[1])
         THEN (IF IsF64(raw_cell)
               THEN PCell(ParsedValue(Number(ParseF64(raw_cell))))
               ELSE PCell(ParsedErr(<<"Had error parsing number ">> \o raw_cell)))
    ELSE PCell(ParsedValue(Text(raw_cell)))

(***************************************************************************)
(* Dependency graph (src/src/spreadsheet/parser/dependancy_graph.rs).      *)
(* A graph g is a function from its nodes to their adjacency lists.        *)
(***************************************************************************)
\* allows_compute.entry(idx).or_default()
Entry(g, idx) ==
    IF idx \in DOMAIN g THEN g
    ELSE [n \in DOMAIN g \cup {idx} |-> IF n = idx THEN <<>> ELSE g[n]]

RECURSIVE add_edges(_, _, _, _)
add_edges(g, idx, cel_depends_on, i) ==
    IF i > Len(cel_depends_on) THEN g
    ELSE LET dependency == cel_depends_on[i]
             h == Entry(g, dependency)
         IN  add_edges([h EXCEPT ![dependency] = Append(@, idx)],
                       idx, cel_depends_on, i + 1)

add_node(g, idx, cel_depends_on) == add_edges(Entry(g, idx), idx, cel_depends_on, 1)

\* remove_node deleting the node with its list, edges out of it included
remove_node_whole(g, index) ==
    [n \in DOMAIN g \ {index} |-> SelectSeq(g[n], LAMBDA x : x # index)]

\* remove_node emptying the list of the node instead: the edges out of it
\* go, the edges into it stay
remove_node_outgoing(g, index) ==
    [n \in DOMAIN g |-> IF n = index THEN <<>> ELSE g[n]]

\* removes index from every adjacency list; the node and its own list stay
remove_node(g, index) ==
    [n \in DOMAIN g |-> SelectSeq(g[n], LAMBDA x : x # index)]

\* change_node without the second call: the new edges are never added
change_node_not_readded(g, index, dependencies) == remove_node(g, index)

\* change_node without the first call: the edges of before are kept
change_node_not_cleared(g, index, dependencies) ==
    add_node(g, index, dependencies)

change_node(g, index, dependencies) ==
    add_node(remove_node(g, index), index, dependencies)

SeqContains(s, x) == \E i \in 1..Len(s) : s[i] = x

\* the for loop without to_process.push: the dependants of the dependants
\* are never visited
push_dependants_not_processed(dependants, i, result, to_process) ==
    [result |-> result \o SelectSeq(dependants, LAMBDA d : ~SeqContains(result, d)),
     to_process |-> to_process]

\* the for loop over the dependants of one popped cell
RECURSIVE push_dependants(_, _, _, _)
push_dependants(dependants, i, result, to_process) ==
    IF i > Len(dependants) THEN [result |-> result, to_process |-> to_process]
    ELSE IF SeqContains(result, dependants[i])
         THEN push_dependants(dependants, i + 1, result, to_process)
    ELSE push_dependants(dependants, i + 1, Append(result, dependants[i]),
                         Append(to_process, dependants[i]))

\* the while loop of get_all_dependants; to_process is a stack
RECURSIVE get_all_dependants_loop(_, _, _)
get_all_dependants_loop(g, result, to_process) ==
    IF to_process = <<>> THEN result
    ELSE LET cell == to_process[Len(to_process)]
             rest == SubSeq(to_process, 1, Len(to_process) - 1)
             r == IF cell \in DOMAIN g
                  THEN push_dependants(g[cell], 1, result, rest)
                  ELSE [result |-> result, to_process |-> rest]
         IN  get_all_dependants_loop(g, r.result, r.to_process)

\* get_all_dependants with the index itself taken out of the result
get_all_dependants_without_index(g, index) ==
    SelectSeq(get_all_dependants_loop(g, <<>>, <<index>>), LAMBDA d : d # index)

get_all_dependants(g, index) == get_all_dependants_loop(g, <<>>, <<index>>)

RECURSIVE CountIn(_, _, _)
CountIn(g, N, v) ==
    IF N = {} THEN 0
    ELSE LET n == CHOOSE m \in N : TRUE
         IN  Len(SelectSeq(g[n], LAMBDA x : x = v)) + CountIn(g, N \ {n}, v)

\* the number of times v occurs in the adjacency lists
InDegree(g, v) == CountIn(g, DOMAIN g, v)

\* the for loop without its body: no in-degree is decreased
decrease_dependents_forgotten(dependents, i, in_degree, zero_in_degree) ==
    [in_degree |-> in_degree, zero_in_degree |-> zero_in_degree]

\* the for loop decreasing the in-degree of a dependent once, however many
\* times the list names it
RECURSIVE decrease_dependents_once(_, _, _, _)
decrease_dependents_once(dependents, i, in_degree, zero_in_degree) ==
    IF i > Len(dependents)
    THEN [in_degree |-> in_degree, zero_in_degree |-> zero_in_degree]
    ELSE IF \E j \in 1..(i - 1) : dependents[j] = dependents[i]
         THEN decrease_dependents_once(dependents, i + 1, in_degree,
                                       zero_in_degree)
    ELSE LET dependent == dependents[i]
             degree == in_degree[dependent] - 1
         IN  decrease_dependents_once(dependents, i + 1,
                 [in_degree EXCEPT ![dependent] = degree],
                 IF degree = 0 THEN Append(zero_in_degree, dependent)
                 ELSE zero_in_degree)

\* the for loop over the dependents of one popped node
RECURSIVE decrease_dependents(_, _, _, _)
decrease_dependents(dependents, i, in_degree, zero_in_degree) ==
    IF i > Len(dependents)
    THEN [in_degree |-> in_degree, zero_in_degree |-> zero_in_degree]
    ELSE LET dependent == dependents[i]
             degree == in_degree[dependent] - 1
         IN  decrease_dependents(dependents, i + 1,
                 [in_degree EXCEPT ![dependent] = degree],
                 IF degree = 0 THEN Append(zero_in_degree, dependent)
                 ELSE zero_in_degree)

\* the while loop of topological_sort; zero_in_degree is a stack
RECURSIVE kahn_loop(_, _, _, _)
kahn_loop(g, in_degree, zero_in_degree, sorted) ==
    IF zero_in_degree = <<>> THEN [in_degree |-> in_degree, sorted |-> sorted]
    ELSE LET node == zero_in_degree[Len(zero_in_degree)]
             rest == SubSeq(zero_in_degree, 1, Len(zero_in_degree) - 1)
             r == decrease_dependents(g[node], 1, in_degree, rest)
         IN  kahn_loop(g, r.in_degree, r.zero_in_degree, Append(sorted, node))

\* topological_sort with >= for > in its last loop: every node is reported
\* in cycles
topological_sort_degree_ge(g, order) ==
    LET in_degree == [n \in DOMAIN g |-> InDegree(g, n)]
        zero_in_degree == SelectSeq(order, LAMBDA n : in_degree[n] = 0)
        r == kahn_loop(g, in_degree, zero_in_degree, <<>>)
    IN  [sorted |-> r.sorted,
         cycles |-> SelectSeq(order, LAMBDA n : r.in_degree[n] >= 0)]

\* topological_sort with sorted.insert(0, node) for sorted.push(node): the
\* nodes of sorted come out in the reverse order
topological_sort_pushed_front(g, order) ==
    LET in_degree == [n \in DOMAIN g |-> InDegree(g, n)]
        zero_in_degree == SelectSeq(order, LAMBDA n : in_degree[n] = 0)
        r == kahn_loop(g, in_degree, zero_in_degree, <<>>)
    IN  [sorted |-> [i \in 1..Len(r.sorted) |-> r.sorted[Len(r.sorted) + 1 - i]],
         cycles |-> SelectSeq(order, LAMBDA n : r.in_degree[n] > 0)]

\* topological_sort; order is the order in which the HashMap in_degree
\* yields its keys, which the program does not control
topological_sort(g, order) ==
    LET in_degree == [n \in DOMAIN g |-> InDegree(g, n)]
        zero_in_degree == SelectSeq(order, LAMBDA n : in_degree[n] = 0)
        r == kahn_loop(g, in_degree, zero_in_degree, <<>>)
    IN  [sorted |-> r.sorted,
         cycles |-> SelectSeq(order, LAMBDA n : r.in_degree[n] > 0)]

(***************************************************************************)
(* Sheet engine (src/src/spreadsheet.rs).                                  *)
(***************************************************************************)
DepsOf(cell) ==
    IF cell.parsed_representation.some /\ cell.parsed_representation.ok
       /\ cell.parsed_representation.kind = "Expr"
    THEN cell.parsed_representation.dependencies
    ELSE <<>>

add_dependencies(g, index, cell) == add_node(g, index, DepsOf(cell))

\* update_dependencies calling add_node for change_node: the edges of the
\* old formula are kept
update_dependencies_added(g, index, cell) == add_node(g, index, DepsOf(cell))

update_dependencies(g, index, cell) == change_node(g, index, DepsOf(cell))

compute_cell(cell, cs) ==
    LET p == cell.parsed_representation
    IN  IF ~p.some THEN None
        ELSE IF ~p.ok THEN ParseError(p.msg)
        ELSE IF p.kind = "Expr" THEN resolve(p.ast, cs)
        ELSE Ok(p.value)

SheetOk(cs) == [panic |-> FALSE, cells |-> cs]

SheetPanic(cs) == [panic |-> TRUE, cells |-> cs]

\* the first loop of compute_all, over sorted
RECURSIVE compute_sorted(_, _, _)

\* the end of one turn of the loop: the value is stored and the flag cleared
StoreComputed(cs, sorted, i, computed) ==
    IF IsPanic(computed) THEN SheetPanic(cs)
    ELSE compute_sorted([cs EXCEPT ![sorted[i]].computed_value = computed,
                                   ![sorted[i]].needs_compute = FALSE],
                        sorted, i + 1)

\* the first loop without its test of needs_compute: every live cell of
\* sorted is evaluated
compute_sorted_unflagged(cs, sorted, i) ==
    IF i > Len(sorted) THEN SheetOk(cs)
    ELSE IF sorted[i] \notin DOMAIN cs THEN compute_sorted(cs, sorted, i + 1)
    ELSE StoreComputed(cs, sorted, i, compute_cell(cs[sorted[i]], cs))

compute_sorted(cs, sorted, i) ==
    IF i > Len(sorted) THEN SheetOk(cs)
    ELSE IF sorted[i] \notin DOMAIN cs THEN compute_sorted(cs, sorted, i + 1)
    ELSE IF ~cs[sorted[i]].needs_compute THEN compute_sorted(cs, sorted, i + 1)
    ELSE StoreComputed(cs, sorted, i, compute_cell(cs[sorted[i]], cs))

\* compute_all without its second loop: no cell is given Cycle
compute_cycles_skipped(cs, cycles, i) == SheetOk(cs)

\* the second loop of compute_all, over cycles: the lookup is an expect,
\* and needs_compute is left as it is
RECURSIVE compute_cycles(_, _, _)
compute_cycles(cs, cycles, i) ==
    IF i > Len(cycles) THEN SheetOk(cs)
    ELSE IF cycles[i] \notin DOMAIN cs THEN SheetPanic(cs)
    ELSE IF ~cs[cycles[i]].needs_compute THEN compute_cycles(cs, cycles, i + 1)
    ELSE compute_cycles([cs EXCEPT ![cycles[i]].computed_value = Cycle],
                        cycles, i + 1)

\* the second loop, on the sheet s the first loop left
AfterSorted(s, cycles) ==
    IF s.panic THEN s ELSE compute_cycles(s.cells, cycles, 1)

\* the two loops, over the result t of topological_sort
ComputeLoops(cs, t) == AfterSorted(compute_sorted(cs, t.sorted, 1), t.cycles)

compute_all(cs, g, order) == ComputeLoops(cs, topological_sort(g, order))

\* the loop that sets needs_compute on the live cells among dependants
MarkDependants(cs, dependants) ==
    [i \in DOMAIN cs |->
        IF SeqContains(dependants, i) THEN [cs[i] EXCEPT !.needs_compute = TRUE]
        ELSE cs[i]]

\* need_compute: some dependant holds a cell
NeedCompute(cs, dependants) == \E i \in DOMAIN cs : SeqContains(dependants, i)

\* cells.insert(index, cell)
CellsInsert(cs, index, cell) ==
    [i \in DOMAIN cs \cup {index} |-> IF i = index THEN cell ELSE cs[i]]

\* cells.remove(&index)
CellsRemove(cs, index) == [i \in DOMAIN cs \ {index} |-> cs[i]]

RECURSIVE Perms(_)
Perms(S) ==
    IF S = {} THEN {<<>>}
    ELSE UNION {{<<x>> \o p : p \in Perms(S \ {x})} : x \in S}

\* The orders in which in_degree may yield its keys.  Only the relative
\* order of the nodes of in-degree zero reaches sorted, and compute_all
\* treats the nodes of cycles one by one, so the other nodes follow in one
\* order.
Orders(g) ==
    LET zero == {n \in DOMAIN g : InDegree(g, n) = 0}
        others == CHOOSE p \in Perms(DOMAIN g \ zero) : TRUE
    IN  {z \o others : z \in Perms(zero)}

RECURSIVE EdgesIn(_, _)
EdgesIn(g, N) ==
    IF N = {} THEN 0
    ELSE LET n == CHOOSE m \in N : TRUE
         IN  Len(g[n]) + EdgesIn(g, N \ {n})

\* the number of edges the graph stores
EdgeCount(g) == EdgesIn(g, DOMAIN g)

RECURSIVE DepsIn(_, _)
DepsIn(cs, N) ==
    IF N = {} THEN 0
    ELSE LET n == CHOOSE m \in N : TRUE
         IN  Len(DepsOf(cs[n])) + DepsIn(cs, N \ {n})

\* the number of stored edges that no dependency of a live cell accounts for
StaleCount(cs, g) == EdgeCount(g) - DepsIn(cs, DOMAIN cs)

(***************************************************************************)
(* The texts and addresses of the model.  The sheet of the arithmetic      *)
(* scenarios: three cells of column A, with numbers and formulas that name *)
(* single cells.                                                           *)
(***************************************************************************)
A1 == <<0, 0>>

A2 == <<0, 1>>

A3 == <<0, 2>>

Addrs == {A1, A2, A3}

Raws ==
    {<<"1">>,
     <<"=", "A", "1", "*", "2">>,
     <<"=", "A", "2", "*", "3">>,
     <<"=", "A", "3">>,
     <<"=", "A", "1", "+", "A", "3">>}

\* The sheet of the range scenarios: a column of numbers and a sum over it.
B1 == <<1, 0>>

RangeAddrs == {A1, A2, A3, B1}

SumOfColumn == <<"=", "s", "u", "m", "(", "A", "1", ":", "A", "3", ")">>

\* numbers in column A, the sum beside it: a sum typed inside its own range
\* would add its last value to itself at every recompute, without end
RangeRawsAt(index) == IF index = B1 THEN {SumOfColumn} ELSE {<<"1">>, <<"2">>}

RangeRaws == UNION {RangeRawsAt(index) : index \in RangeAddrs}

\* The sheet of the texts that the parser or the evaluator may not survive:
\* the empty text, a comparison, a name with row 0, two formulas that break
\* off, a function name that starts with a lowercase letter outside ASCII,
\* and the string literal of tests::test_string
TextAddrs == {A1, A2}

TextRaws ==
    {<<>>, <<"1">>,
     <<"=", "A", "1">>,
     <<"=", "1", "=", "=", "1">>,
     <<"=", "A", "0">>,
     <<"=", "1", "+">>,
     <<"=", "A", "1", "+">>,
     <<"=", "U+00E9">>,
     <<"=", "\"", "h", "e", "l", "l", "o", "\"">>}

\* the error scenarios: a formula that fails to parse, a number or a text at
\* A1, a reader of A1 and A3 at A2, and at A3 a self-reference, a reader of
\* A1 or a number
ErrorRawsAt(index) ==
    IF index = A1 THEN {<<"=", "1", "+">>, <<"1">>, <<"a">>}
    ELSE IF index = A2
         THEN {<<"=", "A", "1", "+", "A", "3">>, <<"=", "A", "1">>, <<"1">>}
    ELSE {<<"=", "A", "3">>, <<"=", "A", "1">>, <<"1">>}

\* the formulas that name one cell twice, as =A1+A1, and a number
TwiceRaws ==
    {<<"1">>,
     <<"=", "A", "1", "+", "A", "1">>,
     <<"=", "A", "2", "+", "A", "2">>,
     <<"=", "A", "3", "+", "A", "3">>}

\* every text the model types
AllRaws ==
    Raws \cup RangeRaws \cup TextRaws \cup TwiceRaws
        \cup UNION {ErrorRawsAt(index) : index \in Addrs}

\* parse_cell on the texts of the model, parsed once
ParsedRaws == [raw \in AllRaws |-> parse_cell(raw)]

ParseRaw(raw) == ParsedRaws[raw]

(***************************************************************************)
(* The public operations, as the set of outcomes an operation can have on  *)
(* the cells cs and the graph g: one outcome for each order in which the   *)
(* HashMap of topological_sort may yield its keys.  When an operation      *)
(* panics or never returns the sheet is lost with the process.             *)
(***************************************************************************)
Returned(cs, g) == [status |-> "running", cells |-> cs, graph |-> g]

Stopped(how) == [status |-> how, cells |-> <<>>, graph |-> <<>>]

\* what the operation leaves when compute_all left r
Outcome(r, g) ==
    IF r.panic THEN Stopped("panicked") ELSE Returned(r.cells, g)

\* if need_compute { self.compute_all() }, on the cells marked
ComputeIfNeeded(need_compute, marked, g) ==
    IF need_compute
    THEN {Outcome(compute_all(marked, g, order), g) : order \in Orders(g)}
    ELSE {Returned(marked, g)}

\* the tail of insert and mutate: the loop over the dependants of index,
\* then the recompute
MarkAndCompute(cs1, g1, dependants) ==
    ComputeIfNeeded(NeedCompute(cs1, dependants),
                    MarkDependants(cs1, dependants), g1)

\* the cell after parse_cell
Parsed(raw, p) == [from_raw(raw) EXCEPT !.parsed_representation = p.parsed]

\* the cell after cell.computed_value = ...; cell.needs_compute = false
Computed(cell, computed) ==
    [cell EXCEPT !.computed_value = computed, !.needs_compute = FALSE]

\* add_cell_and_compute from self.cells.insert on; g1 is the graph after
\* add_dependencies
InsertCell(cs, g1, index, cell, computed) ==
    IF IsPanic(computed) THEN {Stopped("panicked")}
    ELSE MarkAndCompute(CellsInsert(cs, index, Computed(cell, computed)), g1,
                        get_all_dependants(g1, index))

\* add_cell_and_compute after parse_cell, which left p
AddParsed(cs, g, index, raw, p) ==
    IF p.hang THEN {Stopped("never_returns")}
    ELSE IF p.panic \/ Trapped(p.underflow) THEN {Stopped("panicked")}
    ELSE InsertCell(cs, add_dependencies(g, index, Parsed(raw, p)), index,
                    Parsed(raw, p), compute_cell(Parsed(raw, p), cs))

\* SpreadSheet::add_cell_and_compute
add_cell_and_compute(cs, g, index, raw) ==
    AddParsed(cs, g, index, raw, ParseRaw(raw))

\* remove_cell without its call of remove_node: the edges into the removed
\* cell stay in the graph
remove_cell_edges_kept(cs, g, index) ==
    ComputeIfNeeded(NeedCompute(cs, get_all_dependants(g, index)),
                    CellsRemove(MarkDependants(cs, get_all_dependants(g, index)),
                                index),
                    g)

\* SpreadSheet::remove_cell: the dependants are those of the graph before
\* the node is removed
remove_cell(cs, g, index) ==
    ComputeIfNeeded(NeedCompute(cs, get_all_dependants(g, index)),
                    CellsRemove(MarkDependants(cs, get_all_dependants(g, index)),
                                index),
                    remove_node(g, index))

\* mutate_cell from *cell = new_cell on; g1 is the graph after
\* update_dependencies
ReplaceCell(cs, g1, index, new_cell) ==
    MarkAndCompute(CellsInsert(cs, index, new_cell), g1,
                   get_all_dependants(g1, index))

\* mutate_cell from compute_cell on: the lookup of the old cell is an expect
MutateComputed(cs, g, index, cell, computed) ==
    IF IsPanic(computed) THEN {Stopped("panicked")}
    ELSE IF index \notin DOMAIN cs THEN {Stopped("panicked")}
    ELSE ReplaceCell(cs, update_dependencies(g, index, Computed(cell, computed)),
                     index, Computed(cell, computed))

\* mutate_cell after parse_cell, which left p
MutateParsed(cs, g, index, new_raw, p) ==
    IF p.hang THEN {Stopped("never_returns")}
    ELSE IF p.panic \/ Trapped(p.underflow) THEN {Stopped("panicked")}
    ELSE MutateComputed(cs, g, index, Parsed(new_raw, p),
                        compute_cell(Parsed(new_raw, p), cs))

\* SpreadSheet::mutate_cell: the new cell is computed before the graph is
\* updated
mutate_cell(cs, g, index, new_raw) ==
    MutateParsed(cs, g, index, new_raw, ParseRaw(new_raw))

\* SpreadSheet::get_raw
get_raw(cs, index) ==
    IF index \in DOMAIN cs THEN <<cs[index].raw_representation>> ELSE <<>>

(***************************************************************************)
(* The transitions: one public operation on the sheet of the state.        *)
(***************************************************************************)
Op(op, index, raw) ==
    [op |-> op, index |-> index, raw |-> raw, live |-> index \in DOMAIN cells]

NoOp == [op |-> "none", index |-> <<0, 0>>, raw |-> <<>>, live |-> FALSE]

Step(outcome, op) ==
    /\ status = "running"
    /\ StaleCount(outcome.cells, outcome.graph) <= MaxStale
    /\ cells' = outcome.cells
    /\ allows_compute' = outcome.graph
    /\ status' = outcome.status
    /\ stopped_in' = IF outcome.status = "running" THEN NoOp ELSE op
    /\ UNCHANGED <<overflow_checks, input, output>>

InsertAt(index, raw) ==
    \E outcome \in add_cell_and_compute(cells, allows_compute, index, raw) :
        Step(outcome, Op("insert", index, raw))

MutateAt(index, raw) ==
    \E outcome \in mutate_cell(cells, allows_compute, index, raw) :
        Step(outcome, Op("mutate", index, raw))

RemoveAt(index) ==
    \E outcome \in remove_cell(cells, allows_compute, index) :
        Step(outcome, Op("remove", index, <<>>))

\* SpreadSheet::default(), in a build of either kind
InitBuilds ==
    /\ cells = <<>>
    /\ allows_compute = <<>>
    /\ overflow_checks \in BOOLEAN
    /\ status = "running"
    /\ stopped_in = NoOp
    /\ input = <<>>
    /\ output = <<>>

\* No text of Raws names row 0, so get_cell_idx never meets 0 - 1 and the
\* kind of build is never looked at: one kind is enough.
Init == InitBuilds /\ overflow_checks = FALSE

Insert == \E index \in Addrs, raw \in Raws : InsertAt(index, raw)

Mutate == \E index \in Addrs, raw \in Raws : MutateAt(index, raw)

Remove == \E index \in Addrs : RemoveAt(index)

Next == Insert \/ Mutate \/ Remove

Spec == Init /\ [][Next]_vars

\* the range scenarios
InsertRange ==
    \E index \in RangeAddrs : \E raw \in RangeRawsAt(index) : InsertAt(index, raw)

MutateRange ==
    \E index \in RangeAddrs : \E raw \in RangeRawsAt(index) : MutateAt(index, raw)

RemoveRange == \E index \in RangeAddrs : RemoveAt(index)

NextRanges == InsertRange \/ MutateRange \/ RemoveRange

SpecRanges == Init /\ [][NextRanges]_vars

\* the text scenarios, in a build of either kind
InsertText == \E index \in TextAddrs, raw \in TextRaws : InsertAt(index, raw)

MutateText == \E index \in TextAddrs, raw \in TextRaws : MutateAt(index, raw)

RemoveText == \E index \in TextAddrs : RemoveAt(index)

NextTexts == InsertText \/ MutateText \/ RemoveText

SpecTexts == InitBuilds /\ [][NextTexts]_vars

\* the error scenarios
InsertError ==
    \E index \in Addrs : \E raw \in ErrorRawsAt(index) : InsertAt(index, raw)

MutateError ==
    \E index \in Addrs : \E raw \in ErrorRawsAt(index) : MutateAt(index, raw)

NextErrors == InsertError \/ MutateError \/ Remove

SpecErrors == Init /\ [][NextErrors]_vars

\* insert as GUI::commit_editor calls it: on an address that holds no cell
InsertFresh ==
    \E index \in Addrs \ DOMAIN cells, raw \in Raws : InsertAt(index, raw)

NextFresh == InsertFresh \/ Mutate \/ Remove

SpecFresh == Init /\ [][NextFresh]_vars

InsertTwice == \E index \in Addrs, raw \in TwiceRaws : InsertAt(index, raw)

MutateTwice == \E index \in Addrs, raw \in TwiceRaws : MutateAt(index, raw)

NextTwice == InsertTwice \/ MutateTwice \/ Remove

SpecTwice == Init /\ [][NextTwice]_vars

\* the graphs the operations of DependancyGraph build on their own, no
\* cell behind any node: dependency lists with repeated and self-naming
\* entries included
DepLists == {<<>>} \cup {<<d>> : d \in Addrs} \cup {<<d, e>> : d, e \in Addrs}

GraphStep(g) ==
    /\ EdgeCount(g) <= MaxEdges
    /\ allows_compute' = g
    /\ UNCHANGED <<cells, overflow_checks, status, stopped_in, input, output>>

AddNode == \E idx \in Addrs, deps \in DepLists :
    GraphStep(add_node(allows_compute, idx, deps))

RemoveNode == \E idx \in Addrs : GraphStep(remove_node(allows_compute, idx))

ChangeNode == \E idx \in Addrs, deps \in DepLists :
    GraphStep(change_node(allows_compute, idx, deps))

NextGraphs == AddNode \/ RemoveNode \/ ChangeNode

SpecGraphs == Init /\ [][NextGraphs]_vars

(***************************************************************************)
(* Vocabulary of the properties.                                           *)
(***************************************************************************)
Running == status = "running"

Live == DOMAIN cells

\* the graph has the edge u -> v
HasEdge(g, u, v) == u \in DOMAIN g /\ SeqContains(g[u], v)

\* the nodes one edge away from a node of S
Successors(g, S) == {v \in DOMAIN g : \E u \in S : HasEdge(g, u, v)}

RECURSIVE ReachFrom(_, _, _)
ReachFrom(g, frontier, seen) ==
    LET new == Successors(g, frontier) \ seen
    IN  IF new = {} THEN seen ELSE ReachFrom(g, new, seen \cup new)

\* the nodes reachable from u along one or more edges
Reachable(g, u) == ReachFrom(g, {u}, {})

OnCycle(g, u) == u \in Reachable(g, u)

\* reachable from a node that is on a cycle, without being on one
BelowCycle(g, u) ==
    /\ ~OnCycle(g, u)
    /\ \E c \in DOMAIN g : OnCycle(g, c) /\ u \in Reachable(g, c)

IsFormula(cell) ==
    cell.raw_representation # <<>> /\ cell.raw_representation[1] = "="

\* what evaluating the parsed form of the cell at a against the sheet gives
Evaluated(a) == compute_cell(cells[a], cells)

\* the value the sheet holds for the cell at a
Held(a) == cells[a].computed_value

(***************************************************************************)
(* C1: once an operation has returned, every cell whose raw text is a      *)
(* formula either holds Cycle and lies on a cycle of the dependency graph, *)
(* or holds the result of evaluating its formula against the sheet as it   *)
(* stands.                                                                 *)
(***************************************************************************)
C1_CycleOrEvaluated ==
    Running =>
        \A a \in Live :
            IsFormula(cells[a]) =>
                \/ Held(a) = Cycle /\ OnCycle(allows_compute, a)
                \/ Held(a) = Evaluated(a)

(***************************************************************************)
(* C2: in a sheet without ranges, after an insert, a mutate or a remove at *)
(* the address a has returned, every cell that is reachable from a along   *)
(* the edges of the graph and is not on a cycle holds the value that       *)
(* re-evaluating its formula against the sheet gives.                      *)
(***************************************************************************)
Edited(a) ==
    \/ \E raw \in Raws : InsertAt(a, raw)
    \/ \E raw \in Raws : MutateAt(a, raw)
    \/ RemoveAt(a)

Reevaluated(a) ==
    Running =>
        \A c \in Live :
            (c \in Reachable(allows_compute, a) /\ ~OnCycle(allows_compute, c))
                => Held(c) = Evaluated(c)

C2_DependantsReevaluated ==
    [][\A a \in Addrs : Edited(a) => Reevaluated(a)']_vars

(***************************************************************************)
(* C3: after any sequence of edits, every live cell that lies on a cycle   *)
(* of the dependency graph (a self-reference, a loop of two cells, or a    *)
(* longer loop) holds Cycle, whichever edit closed the loop.               *)
(***************************************************************************)
C3_CellsOnCycleHoldCycle ==
    Running =>
        \A a \in Live : OnCycle(allows_compute, a) => Held(a) = Cycle

\* a loop through the three cells has been closed, and each holds Cycle
C3_LoopOfThree ==
    /\ Running
    /\ Live = Addrs
    /\ \A a \in Addrs : Reachable(allows_compute, a) = Addrs
    /\ \A a \in Addrs : EdgeCount(allows_compute) = 3 /\ Held(a) = Cycle

RECURSIVE RangesOf(_)
RangesOf(ast) ==
    IF ast.k = "Range" THEN {<<ast.name, ast.to>>}
    ELSE UNION {RangesOf(ast.kids[i]) : i \in 1..Len(ast.kids)}

\* the addresses of the rectangle of the range r
Covered(r) ==
    {range_to_indeces(r[1], r[2]).indices[i] :
        i \in 1..Len(range_to_indeces(r[1], r[2]).indices)}

\* the addresses the ranges of the formula at a cover; none without a formula
RangeCells(a) ==
    IF DepsOf(cells[a]) = <<>> /\ cells[a].parsed_representation.kind # "Expr"
    THEN {}
    ELSE UNION {Covered(r) : r \in RangesOf(cells[a].parsed_representation.ast)}

C5_RangeCellsAreDependencies ==
    Running =>
        \A a \in Live :
            /\ \A i \in RangeCells(a) :
                  /\ SeqContains(DepsOf(cells[a]), i)
                  /\ HasEdge(allows_compute, i, a)
            /\ RangeCells(a) # {} => Held(a) = Evaluated(a)

(***************************************************************************)
(* C6: after remove(a) has returned, a holds no cell, and every live cell  *)
(* whose formula names a, with no operand failing before that reference,   *)
(* holds UnfindableReference; a formula inserted with a reference to an    *)
(* address that holds no cell holds UnfindableReference too.  Cells on a   *)
(* cycle, which are to hold Cycle, are left out.                           *)
(***************************************************************************)
\* evaluating the formula at c fails first at its reference to a, which
\* holds no cell
Dangling(c, a) ==
    /\ a \notin Live
    /\ SeqContains(DepsOf(cells[c]), a)
    /\ Evaluated(c).e = "UnfindableReference"
    /\ get_cell_idx(Evaluated(c).msg).idx = a

HoldsUnfindable(c) ==
    \A a \in Addrs :
        (Dangling(c, a) /\ ~OnCycle(allows_compute, c)) => Held(c) = Evaluated(c)

AfterRemove(a) ==
    Running =>
        /\ a \notin Live
        /\ get_raw(cells, a) = <<>>
        /\ ~IsSome(get_computed(cells, a))
        /\ \A c \in Live : HoldsUnfindable(c)

AfterInsert(a) == Running => HoldsUnfindable(a)

C6_DanglingReferences ==
    [][\A a \in Addrs :
          /\ RemoveAt(a) => AfterRemove(a)'
          /\ \A raw \in Raws : InsertAt(a, raw) => AfterInsert(a)']_vars

(***************************************************************************)
(* C7: insert and mutate return normally for every raw text - text that    *)
(* fails to tokenize or to parse, formulas with any operator the tokenizer *)
(* accepts, formulas that name row 0, the empty text - and then the cell   *)
(* holds a value or an error that get_computed shows.                      *)
(***************************************************************************)
C7_EveryTextReturns ==
    /\ ~Running =>
          ~(\/ stopped_in.op = "insert"
            \/ stopped_in.op = "mutate" /\ stopped_in.live)
    /\ Running => \A a \in Live : IsSome(get_computed(cells, a))

(***************************************************************************)
(* C8: insert, mutate, remove, get_computed and get_raw complete without   *)
(* aborting for every address and every reachable sheet, mutate and remove *)
(* on an address that holds no cell included.                              *)
(***************************************************************************)
C8_OperationsTotal == status = "running"

(***************************************************************************)
(* C9: insert(a, raw) on an address that holds a cell leaves the sheet as  *)
(* mutate(a, raw) does: the same computed value for every cell and the     *)
(* same set of graph edges.                                                *)
(***************************************************************************)
EdgeSet(g) == {e \in (DOMAIN g) \X (DOMAIN g) : HasEdge(g, e[1], e[2])}

\* what the claim compares of an outcome
Observed(outcome) ==
    [status |-> outcome.status,
     computed |-> [i \in DOMAIN outcome.cells |-> outcome.cells[i].computed_value],
     edges |-> EdgeSet(outcome.graph)]

C9_InsertOnLiveIsMutate ==
    Running =>
        \A a \in Live, raw \in Raws :
            {Observed(o) : o \in add_cell_and_compute(cells, allows_compute, a, raw)}
              = {Observed(o) : o \in mutate_cell(cells, allows_compute, a, raw)}

(***************************************************************************)
(* C10: after any operation has returned, a live cell has a computed value *)
(* if and only if its needs_compute is false; the recompute clears the     *)
(* flag of every cell it writes, those it writes Cycle to included.        *)
(***************************************************************************)
C10_ComputedIffClean ==
    Running =>
        \A a \in Live : IsSome(Held(a)) <=> ~cells[a].needs_compute

(***************************************************************************)
(* C11: after any sequence of edits, for every live cell c whose parsed    *)
(* form is an expression and every address d of its dependency list, the   *)
(* graph has the edge d -> c, also when d holds no cell.                   *)
(***************************************************************************)
C11_DependenciesAreEdges ==
    Running =>
        \A c \in Live :
            \A i \in 1..Len(DepsOf(cells[c])) :
                HasEdge(allows_compute, DepsOf(cells[c])[i], c)

\* a live formula depends on an address that holds no cell, and on a live
\* one, and both edges are in the graph
C11_EdgeFromAbsentCell ==
    /\ Running
    /\ \E c \in Live, d \in Addrs \ Live, e \in Live :
          /\ e # c
          /\ SeqContains(DepsOf(cells[c]), d) /\ HasEdge(allows_compute, d, c)
          /\ SeqContains(DepsOf(cells[c]), e) /\ HasEdge(allows_compute, e, c)

(***************************************************************************)
(* C12: after remove(a), the graph has no node for a and no adjacency list *)
(* contains a: every edge into a and every edge out of a is gone.          *)
(***************************************************************************)
NoListHolds(g, a) == \A n \in DOMAIN g : ~SeqContains(g[n], a)

\* remove(a) has returned with the outcome o, on the sheet of the state
Removed(a, o) ==
    o \in remove_cell(cells, allows_compute, a) /\ o.status = "running"

C12_RemoveDeletesNode ==
    Running =>
        \A a \in Addrs :
            \A o \in remove_cell(cells, allows_compute, a) :
                Removed(a, o) =>
                    a \notin DOMAIN o.graph /\ NoListHolds(o.graph, a)

\* C12, as the program has it: after remove(a) no adjacency list contains
\* a, so every edge into a is gone; the nodes of the graph are those of
\* before, a included, and the list of a keeps its edges to the other nodes.
C12_RemoveDeletesEdgesInto ==
    Running =>
        \A a \in Addrs :
            \A o \in remove_cell(cells, allows_compute, a) :
                Removed(a, o) =>
                    /\ NoListHolds(o.graph, a)
                    /\ a \notin DOMAIN o.cells
                    /\ DOMAIN o.graph = DOMAIN allows_compute
                    /\ \A v \in Addrs \ {a} :
                          HasEdge(allows_compute, a, v) <=> HasEdge(o.graph, a, v)

\* a live cell a reads d and is read by c; remove(a) takes the edge d -> a
\* out of the graph and leaves the node a with its edge a -> c
C12_NodeOutlivesCell ==
    /\ Running
    /\ \E a \in Live, c \in Live, d \in Addrs :
          /\ c # a /\ d # a
          /\ HasEdge(allows_compute, a, c) /\ HasEdge(allows_compute, d, a)
          /\ \E o \in remove_cell(cells, allows_compute, a) :
                /\ Removed(a, o)
                /\ HasEdge(o.graph, a, c) /\ ~HasEdge(o.graph, d, a)

(***************************************************************************)
(* C13: a cell whose raw text is a formula that fails to tokenize or to    *)
(* parse holds ParseError and contributes no edge to the graph, so that no *)
(* edge leads into it, and inserting it or mutating a cell to it changes   *)
(* the computed value of no cell that does not reference it.               *)
(***************************************************************************)
\* the formulas of the texts that parse_cell turns into a parse error
FailingFormulas ==
    {raw \in TextRaws \ {<<>>} :
        /\ raw[1] = "="
        /\ ~ParseRaw(raw).panic /\ ~ParseRaw(raw).hang
        /\ ~ParseRaw(raw).parsed.ok}

\* the outcome o of an insert or a mutate of a failing formula at a
ParseErrorKept(a, o) ==
    o.status = "running" =>
        /\ o.cells[a].computed_value.e = "ParseError"
        /\ DepsOf(o.cells[a]) = <<>>
        /\ \A d \in DOMAIN o.graph : ~HasEdge(o.graph, d, a)
        /\ \A c \in Live \ {a} :
              c \notin Reachable(o.graph, a)
                  => o.cells[c].computed_value = Held(c)

C13_ParseErrorIsolated ==
    Running =>
        \A a \in TextAddrs, raw \in FailingFormulas :
            /\ \A o \in add_cell_and_compute(cells, allows_compute, a, raw) :
                  ParseErrorKept(a, o)
            /\ a \in Live =>
                  \A o \in mutate_cell(cells, allows_compute, a, raw) :
                      ParseErrorKept(a, o)

(***************************************************************************)
(* C14: when a formula reads, by its name, a cell that holds an error, the *)
(* reading cell holds that same error; in a binary operation of two names  *)
(* the error of the leftmost failing operand is the result.  Cells on a    *)
(* cycle, which are to hold Cycle, are left out.                           *)
(***************************************************************************)
\* the cell the name stands for is live and holds an error
HoldsError(name) ==
    /\ get_cell_idx(name).idx \in Live
    /\ IsSome(Held(get_cell_idx(name).idx))
    /\ ~Held(get_cell_idx(name).idx).ok

\* the cell the name stands for is live and holds a value
HoldsValue(name) ==
    /\ get_cell_idx(name).idx \in Live
    /\ IsSome(Held(get_cell_idx(name).idx))
    /\ Held(get_cell_idx(name).idx).ok

\* the cell c, whose formula is ast, holds the error of the first of its
\* operands that holds one
ErrorPassedOn(c, ast) ==
    IF ast.k = "CellName"
    THEN HoldsError(ast.name) => Held(c) = Held(get_cell_idx(ast.name).idx)
    ELSE IF ast.k = "BinaryOp" /\ ast.kids[1].k = "CellName"
            /\ ast.kids[2].k = "CellName"
    THEN /\ HoldsError(ast.kids[1].name)
            => Held(c) = Held(get_cell_idx(ast.kids[1].name).idx)
         /\ (HoldsValue(ast.kids[1].name) /\ HoldsError(ast.kids[2].name))
            => Held(c) = Held(get_cell_idx(ast.kids[2].name).idx)
    ELSE TRUE

C14_ErrorsPassedOn ==
    Running =>
        \A c \in Live :
            (cells[c].parsed_representation.kind = "Expr"
                /\ ~OnCycle(allows_compute, c))
                => ErrorPassedOn(c, cells[c].parsed_representation.ast)

(***************************************************************************)
(* C15: for every graph - with cycles, self-loops, repeated edges, nodes   *)
(* that hold no cell - topological_sort returns sorted and cycles such     *)
(* that every node of the graph is in exactly one of the two lists, once.  *)
(***************************************************************************)
Occurrences(s, x) == Cardinality({i \in 1..Len(s) : s[i] = x})

Members(s) == {s[i] : i \in 1..Len(s)}

\* the results of topological_sort on the graph of the state, one for each
\* order in which in_degree may yield its keys
Sorts == {topological_sort(allows_compute, order) :
            order \in Perms(DOMAIN allows_compute)}

C15_SortedAndCyclesPartition ==
    \A t \in Sorts :
        /\ Members(t.sorted) \cup Members(t.cycles) = DOMAIN allows_compute
        /\ \A n \in DOMAIN allows_compute :
              Occurrences(t.sorted, n) + Occurrences(t.cycles, n) = 1

\* a graph with a self-loop, a repeated edge and a node outside every loop:
\* both lists have members
C15_LoopsAndRepeatedEdges ==
    /\ cells = <<>>
    /\ \E u, v, w \in DOMAIN allows_compute :
          /\ HasEdge(allows_compute, u, u)
          /\ v # w /\ Occurrences(allows_compute[v], w) = 2
          /\ \E t \in Sorts : t.sorted # <<>> /\ t.cycles # <<>>

(***************************************************************************)
(* C16: for every edge u -> v of the graph, the result of topological_sort *)
(* has either both u and v in cycles, or u before v in sorted.             *)
(***************************************************************************)
\* u stands before v in the list s
Before(s, u, v) ==
    \E i, j \in 1..Len(s) : i < j /\ s[i] = u /\ s[j] = v

Edges == {e \in (DOMAIN allows_compute) \X (DOMAIN allows_compute) :
            HasEdge(allows_compute, e[1], e[2])}

C16_EdgesRespected ==
    \A t \in Sorts : \A e \in Edges :
        \/ e[1] \in Members(t.cycles) /\ e[2] \in Members(t.cycles)
        \/ Before(t.sorted, e[1], e[2])

\* C16, as the program has it: for every edge u -> v, either v is in cycles
\* - u being in cycles or in sorted - or u stands before v in sorted.
C16_EdgesRespectedOrIntoCycles ==
    \A t \in Sorts : \A e \in Edges :
        \/ e[2] \in Members(t.cycles)
        \/ Before(t.sorted, e[1], e[2])

\* an edge leads from a node of sorted to a node of cycles, and another
\* from a node of sorted to a later node of sorted
C16_EdgeIntoCycles ==
    /\ cells = <<>>
    /\ \E t \in Sorts : \E e, f \in Edges :
          /\ e[1] \in Members(t.sorted) /\ e[2] \in Members(t.cycles)
          /\ Before(t.sorted, f[1], f[2])

(***************************************************************************)
(* C17: the computed value of a cell that is on no cycle depends only on   *)
(* the raw texts of the cells its dependencies lead to: two sheets reached *)
(* by different histories that agree on those texts agree on the value.    *)
(* The sheet of the state is compared with the sheet that removing a cell  *)
(* and inserting it again with the same text leads to; the two hold the    *)
(* same text at every address.                                             *)
(***************************************************************************)
\* the sheets that remove(a), then insert(a, the text a held) lead to
Retyped(a) ==
    UNION {add_cell_and_compute(o.cells, o.graph, a, cells[a].raw_representation) :
              o \in {r \in remove_cell(cells, allows_compute, a) :
                        r.status = "running"}}

\* the sheet o holds the texts of the state, and the same computed value in
\* every cell that is on no cycle
SameValues(o) ==
    o.status = "running" =>
        /\ DOMAIN o.cells = Live
        /\ \A c \in Live :
              o.cells[c].raw_representation = cells[c].raw_representation
        /\ \A c \in Live :
              ~OnCycle(allows_compute, c)
                  => o.cells[c].computed_value = Held(c)

C17_ComputedFromTexts ==
    Running => \A a \in Live : \A o \in Retyped(a) : SameValues(o)

(***************************************************************************)
(* C18: every insert, mutate and remove terminates on every sheet, sheets  *)
(* whose graph has cycles or self-loops included: get_all_dependants       *)
(* pushes each node at most once, and topological_sort and compute_all     *)
(* treat each node at most once in a call.                                 *)
(***************************************************************************)
\* no member of the list s stands in it twice
NoRepeats(s) == \A i, j \in 1..Len(s) : s[i] = s[j] => i = j

\* the loops over the graph are bounded by its nodes
GraphLoopsBounded ==
    /\ \A a \in Addrs : NoRepeats(get_all_dependants(allows_compute, a))
    /\ \A t \in Sorts : NoRepeats(t.sorted) /\ NoRepeats(t.cycles)

C18_OperationsTerminate ==
    /\ status # "never_returns"
    /\ Running => GraphLoopsBounded

(***************************************************************************)
(* tokenize_expression called on its own, on every text of at most         *)
(* MaxInput characters of TokenChars: a letter, a digit and an operator of *)
(* each lexical rule, a blank, the letters outside ASCII, and a character  *)
(* no rule names.                                                          *)
(***************************************************************************)
TokenChars == {"A", "1", "a", "+", " ", "#"} \cup OtherLower \cup OtherUpper

TokenInputs == UNION {[1..n -> TokenChars] : n \in 0..MaxInput}

\* nothing is called on the sheet while a function is called on its own
SheetUntouched ==
    UNCHANGED <<cells, allows_compute, overflow_checks, status, stopped_in>>

InitTokens ==
    /\ cells = <<>>
    /\ allows_compute = <<>>
    /\ overflow_checks = FALSE
    /\ status = "running"
    /\ stopped_in = NoOp
    /\ input \in TokenInputs
    /\ output = <<>>

Tokenize ==
    /\ output = <<>>
    /\ output' = <<tokenize_expression(input)>>
    /\ UNCHANGED input
    /\ SheetUntouched

NextTokens == Tokenize

SpecTokens == InitTokens /\ [][NextTokens]_vars

\* the character the tokenizer meets first
FirstChar(chars) == chars[skip_whitespace(chars, 1)]

(***************************************************************************)
(* C19: tokenize_expression returns on every finite text, with tokens or   *)
(* with a TokenizeError: each round of its loop consumes a character, and  *)
(* a text that starts with a letter outside ASCII, lowercase or uppercase, *)
(* or with a character of no lexical rule, gives UnexpectedCharacter.      *)
(***************************************************************************)
C19_TokenizerConsumes ==
    output # <<>> =>
        /\ output[1].err # "NeverReturns"
        /\ output[1].err \in {"", "UnexpectedCharacter", "InvalidCellName",
                              "InvalidNumber"}
        /\ (/\ ~is_done(input, skip_whitespace(input, 1))
            /\ FirstChar(input) \in OtherLower \cup OtherUpper \cup {"#"})
               => output[1].err = "UnexpectedCharacter"

(***************************************************************************)
(* The name of a cell as the grid writes it (src/src/gui.rs), rendered and *)
(* parsed back, for every index up to column MaxColumn and row MaxRow.     *)
(***************************************************************************)
DigitSeq == <<"0", "1", "2", "3", "4", "5", "6", "7", "8", "9">>

\* usize::to_string
RECURSIVE to_string(_)
to_string(n) ==
    IF n < 10 THEN <<DigitSeq[n + 1]>>
    ELSE to_string(n \div 10) \o <<DigitSeq[(n % 10) + 1]>>

\* the column rendered without the borrow of idx / 26 - 1
RECURSIVE column_idx_to_string_base26(_)
column_idx_to_string_base26(idx) ==
    IF idx < 26 THEN <<AlphabetSeq[(idx % 26) + 1]>>
    ELSE column_idx_to_string_base26(idx \div 26) \o <<AlphabetSeq[(idx % 26) + 1]>>

RECURSIVE column_idx_to_string(_)
column_idx_to_string(idx) ==
    IF idx < 26 THEN <<AlphabetSeq[(idx % 26) + 1]>>
    ELSE column_idx_to_string((idx \div 26) - 1) \o <<AlphabetSeq[(idx % 26) + 1]>>

\* format!("{}{}", column_idx_to_string(x_idx), y_idx + 1)
CellNameOf(index) == column_idx_to_string(index[1]) \o to_string(index[2] + 1)

NameInputs == (0..MaxColumn) \X (0..MaxRow)

InitNames ==
    /\ cells = <<>>
    /\ allows_compute = <<>>
    /\ overflow_checks \in BOOLEAN
    /\ status = "running"
    /\ stopped_in = NoOp
    /\ input \in NameInputs
    /\ output = <<>>

RenderName ==
    /\ output = <<>>
    /\ output' = <<CellNameOf(input)>>
    /\ UNCHANGED input
    /\ SheetUntouched

ParseName ==
    /\ Len(output) = 1
    /\ output' = Append(output, get_cell_idx(output[1]))
    /\ UNCHANGED input
    /\ SheetUntouched

NextNames == RenderName \/ ParseName

SpecNames == InitNames /\ [][NextNames]_vars

\* the names of all the indices
AllNames == {CellNameOf(index) : index \in NameInputs}

(***************************************************************************)
(* C20: the name of the index <<x, y>>, the letters of column x (A for 0,  *)
(* Z for 25, AA for 26, AB for 27 ...) followed by the row number y + 1,   *)
(* is parsed back by get_cell_idx to <<x, y>>, in a build of either kind,  *)
(* and the names of distinct indices are distinct.                         *)
(***************************************************************************)
C20_NameRoundTrip ==
    /\ Len(output) = 2 =>
           /\ output[2].idx = input
           /\ ~Trapped(output[2].underflow)
    /\ Cardinality(AllNames) = Cardinality(NameInputs)

\* the name of a column of three letters and a row of two digits has been
\* parsed back
C20_ThreeLettersParsed ==
    /\ Len(output) = 2
    /\ input = <<MaxColumn, MaxRow>>
    /\ output[1] = <<"A", "A", "B", "1", "1">>

(***************************************************************************)
(* Loading a grid (SpreadSheet::from_file_path, then the compute_all of    *)
(* main), beside typing the fields of the same grid one at a time.  The    *)
(* grid has one field on each of three lines, so its fields are those of   *)
(* column A; input is the grid, and output tells that it has been loaded.  *)
(***************************************************************************)
\* str::trim
trim(s) ==
    LET blank == {" ", "\t", "\n", "\r", "\f"}
        first == RunEnd(s, 1, blank)
        last == CHOOSE j \in 0..Len(s) :
                    /\ \A k \in (j + 1)..Len(s) : s[k] \in blank
                    /\ j > 0 => s[j] \notin blank
    IN  SubSeq(s, first, last)

\* the fields of the grids: the formulas of Raws, a number between blanks,
\* a field of nothing and a field of one blank
FieldTexts ==
    (Raws \ {<<"1">>}) \cup {<<" ", "1", " ">>, <<>>, <<" ">>}

Grids == [Addrs -> FieldTexts]

\* the order of buffer.lines().enumerate()
LineOrder == <<A1, A2, A3>>

\* SpreadSheet::parse_and_add_raw, on the sheet s
parse_and_add_raw(s, index, raw, p) ==
    IF p.hang THEN Stopped("never_returns")
    ELSE IF p.panic \/ Trapped(p.underflow) THEN Stopped("panicked")
    ELSE Returned(CellsInsert(s.cells, index, Parsed(raw, p)),
                  add_dependencies(s.graph, index, Parsed(raw, p)))

\* the loops of from_file_path, from line i on
RECURSIVE from_file_lines(_, _, _)
from_file_lines(grid, i, s) ==
    IF i > Len(LineOrder) \/ s.status # "running" THEN s
    ELSE IF trim(grid[LineOrder[i]]) = <<>> THEN from_file_lines(grid, i + 1, s)
    ELSE from_file_lines(grid, i + 1,
             parse_and_add_raw(s, LineOrder[i], trim(grid[LineOrder[i]]),
                               ParseRaw(trim(grid[LineOrder[i]]))))

from_file_path(grid) == from_file_lines(grid, 1, Returned(<<>>, <<>>))

\* spread_sheet.compute_all() on the sheet s that from_file_path built
ComputeLoaded(s) ==
    IF s.status # "running" THEN {s}
    ELSE {Outcome(compute_all(s.cells, s.graph, order), s.graph) :
             order \in Orders(s.graph)}

\* main: from_file_path, then compute_all
Loaded(grid) == ComputeLoaded(from_file_path(grid))

LoadStep(outcome, how) ==
    /\ status = "running"
    /\ cells' = outcome.cells
    /\ allows_compute' = outcome.graph
    /\ status' = outcome.status
    /\ output' = how
    /\ UNCHANGED <<overflow_checks, stopped_in, input>>

LoadGrid ==
    /\ output = <<>>
    /\ cells = <<>>
    /\ \E outcome \in Loaded(input) : LoadStep(outcome, <<"loaded">>)

\* insert of a field of the grid that has not been typed yet
InsertField ==
    /\ output # <<"loaded">>
    /\ \E index \in Addrs \ DOMAIN cells :
          /\ trim(input[index]) # <<>>
          /\ \E outcome \in add_cell_and_compute(cells, allows_compute, index,
                                                 trim(input[index])) :
                LoadStep(outcome, <<"typed">>)

InitLoads ==
    /\ cells = <<>>
    /\ allows_compute = <<>>
    /\ overflow_checks = FALSE
    /\ status = "running"
    /\ stopped_in = NoOp
    /\ input \in Grids
    /\ output = <<>>

NextLoads == LoadGrid \/ InsertField

SpecLoads == InitLoads /\ [][NextLoads]_vars

\* the addresses whose field is not empty after trimming
FilledFields(grid) == {a \in Addrs : trim(grid[a]) # <<>>}

(***************************************************************************)
(* C21: loading a grid gives every cell the computed value that typing the *)
(* same non-empty fields one at a time with insert gives it, in whichever  *)
(* order they are typed, and a field that is empty after trimming gives no *)
(* cell.                                                                   *)
(***************************************************************************)
C21_LoadIsInserts ==
    /\ (Running /\ output = <<"loaded">>) => Live = FilledFields(input)
    /\ (Running /\ output = <<"typed">> /\ Live = FilledFields(input)) =>
          \A o \in Loaded(input) :
              /\ o.status = "running"
              /\ DOMAIN o.cells = Live
              /\ \A a \in Live : o.cells[a].computed_value = Held(a)

(***************************************************************************)
(* C22: an insert, a mutate or a remove at the address a changes the raw   *)
(* text, the parsed form and the computed value of no cell other than a    *)
(* and the cells reachable from a along the edges of the graph, and        *)
(* compute_all re-evaluates no cell whose needs_compute the edit did not   *)
(* set.                                                                    *)
(***************************************************************************)
\* the outcome o of an edit at a left the cells that a does not reach as
\* they were
FrameKept(a, g, o) ==
    o.status = "running" =>
        \A c \in Live \ ({a} \cup Reachable(g, a)) :
            /\ c \in DOMAIN o.cells
            /\ o.cells[c].raw_representation = cells[c].raw_representation
            /\ o.cells[c].parsed_representation = cells[c].parsed_representation
            /\ o.cells[c].computed_value = Held(c)

\* the live cells other than a whose needs_compute an edit at a does not
\* set, g being the graph whose dependants the edit marks
Unflagged(g, a) ==
    {c \in Live \ {a} : ~SeqContains(get_all_dependants(g, a), c)}

\* the sheet of the state with the parsed form of the cells of U replaced
\* by a text that no cell holds: a cell of U that is evaluated shows it
Traced(U) ==
    [c \in Live |->
        IF c \in U
        THEN [cells[c] EXCEPT
                 !.parsed_representation = ParsedValue(Text(<<"evaluated">>))]
        ELSE cells[c]]

\* no cell of U was evaluated on the way to the outcome o
NotReevaluated(U, o) ==
    o.status = "running" => \A c \in U : o.cells[c].computed_value = Held(c)

InsertFrame(a, raw) ==
    \A o \in add_cell_and_compute(cells, allows_compute, a, raw) :
        /\ FrameKept(a, o.graph, o)
        /\ o.status = "running" =>
              \A q \in add_cell_and_compute(Traced(Unflagged(o.graph, a)),
                                            allows_compute, a, raw) :
                  NotReevaluated(Unflagged(o.graph, a), q)

MutateFrame(a, raw) ==
    \A o \in mutate_cell(cells, allows_compute, a, raw) :
        /\ FrameKept(a, o.graph, o)
        /\ o.status = "running" =>
              \A q \in mutate_cell(Traced(Unflagged(o.graph, a)),
                                   allows_compute, a, raw) :
                  NotReevaluated(Unflagged(o.graph, a), q)

RemoveFrame(a) ==
    /\ \A o \in remove_cell(cells, allows_compute, a) :
          FrameKept(a, allows_compute, o)
    /\ \A q \in remove_cell(Traced(Unflagged(allows_compute, a)),
                            allows_compute, a) :
          NotReevaluated(Unflagged(allows_compute, a), q)

C22_EditsKeepFrame ==
    Running =>
        \A a \in Addrs :
            /\ \A raw \in Raws : InsertFrame(a, raw)
            /\ a \in Live => \A raw \in Raws : MutateFrame(a, raw)
            /\ RemoveFrame(a)

\* an edit that recomputes a reader and leaves alone a cell that it does
\* not reach and whose needs_compute is still set from an earlier edit
C22_ReaderRecomputedOtherKept ==
    /\ Running
    /\ \E a, c, u \in Live :
          /\ a # c /\ a # u /\ c # u
          /\ c \in Reachable(allows_compute, a)
          /\ u \in Unflagged(allows_compute, a) /\ cells[u].needs_compute
          /\ \E raw \in Raws :
                \E o \in mutate_cell(cells, allows_compute, a, raw) :
                    /\ o.status = "running"
                    /\ o.cells[c].computed_value # Held(c)
                    /\ u \in Unflagged(o.graph, a)

(***************************************************************************)
(* C23: a formula whose body is a string literal between double quotes,    *)
(* ="hello", tokenizes, parses and computes to the Text of the characters  *)
(* between the quotes, not to an error.                                    *)
(***************************************************************************)
C23_StringLiteralIsText ==
    Running =>
        \A a \in Live :
            cells[a].raw_representation
                = <<"=", "\"", "h", "e", "l", "l", "o", "\"">>
              => Held(a) = Ok(Text(<<"h", "e", "l", "l", "o">>))

(***************************************************************************)
(* C24: for an address a that holds a cell, remove(a) followed by          *)
(* insert(a, raw) leaves every cell with the raw text and the computed     *)
(* value, and the graph with the set of edges, that mutate(a, raw) alone   *)
(* leaves: the cells that read a are recomputed against the new cell.      *)
(***************************************************************************)
\* the sheets that remove(a), then insert(a, raw) lead to
RemovedThenInserted(a, raw) ==
    UNION {IF r.status = "running"
           THEN add_cell_and_compute(r.cells, r.graph, a, raw)
           ELSE {r} : r \in remove_cell(cells, allows_compute, a)}

\* what the claim compares of an outcome
ObservedSheet(outcome) ==
    [status |-> outcome.status,
     raw |-> [i \in DOMAIN outcome.cells |-> outcome.cells[i].raw_representation],
     computed |-> [i \in DOMAIN outcome.cells |-> outcome.cells[i].computed_value],
     edges |-> EdgeSet(outcome.graph)]

StoredFirst(raw) ==
    Computed(Parsed(raw, ParseRaw(raw)),
             compute_cell(Parsed(raw, ParseRaw(raw)), cells))

\* what a cell on a cycle may hold: Cycle, or the result of no evaluation
NeverEvaluated(cell) ==
    cell.parsed_representation.kind = "Expr" => cell.computed_value = Cycle

C25_CycleCellsNotEvaluated ==
    Running =>
        \A a \in Addrs, raw \in Raws :
            /\ OnCycle(add_dependencies(allows_compute, a, StoredFirst(raw)), a)
                  => NeverEvaluated(StoredFirst(raw))
            /\ (/\ a \in Live
                /\ OnCycle(update_dependencies(allows_compute, a,
                                               StoredFirst(raw)), a))
                  => NeverEvaluated(StoredFirst(raw))

(***************************************************************************)
(* C26: the result of get_all_dependants(addr) never includes addr itself, *)
(* also when addr lies on a cycle or has an edge to itself.                *)
(***************************************************************************)
C26_DependantsExcludeIndex ==
    \A addr \in Addrs :
        ~SeqContains(get_all_dependants(allows_compute, addr), addr)

\* C26, as the program has it: the result of get_all_dependants(addr)
\* includes addr exactly when addr lies on a cycle of the graph, an edge
\* from addr to itself included.
C26_DependantsIncludeIndexOnCycle ==
    \A addr \in Addrs :
        SeqContains(get_all_dependants(allows_compute, addr), addr)
            <=> OnCycle(allows_compute, addr)

\* one node with an edge to itself, one on a loop of two nodes, and one on
\* no cycle: the first two are among their own dependants, the third is not
C26_IndexAmongItsDependants ==
    /\ cells = <<>>
    /\ \E u, v, w \in DOMAIN allows_compute :
          /\ HasEdge(allows_compute, u, u)
          /\ ~HasEdge(allows_compute, v, v) /\ OnCycle(allows_compute, v)
          /\ SeqContains(get_all_dependants(allows_compute, u), u)
          /\ SeqContains(get_all_dependants(allows_compute, v), v)
          /\ get_all_dependants(allows_compute, w) # <<>>
          /\ ~SeqContains(get_all_dependants(allows_compute, w), w)

(***************************************************************************)
(* C27: get_all_dependants(addr) returns every node that is reachable from *)
(* addr along one or more edges and no other node, each exactly once, for  *)
(* every graph: graphs with cycles, with repeated edges and with nodes     *)
(* that hold no cell included.                                             *)
(***************************************************************************)
C27_DependantsAreReachable ==
    \A addr \in Addrs :
        /\ Members(get_all_dependants(allows_compute, addr))
              = Reachable(allows_compute, addr)
        /\ \A n \in Reachable(allows_compute, addr) :
              Occurrences(get_all_dependants(allows_compute, addr), n) = 1

\* a repeated edge u -> v and an edge v -> w: w, which no edge of u leads
\* to, is among the dependants of u, and v is among them once
C27_TwoEdgesAway ==
    /\ cells = <<>>
    /\ \E u, v, w \in DOMAIN allows_compute :
          /\ u # v /\ v # w /\ u # w
          /\ Occurrences(allows_compute[u], v) = 2
          /\ HasEdge(allows_compute, v, w) /\ ~HasEdge(allows_compute, u, w)
          /\ HasEdge(allows_compute, w, v)
          /\ Members(get_all_dependants(allows_compute, u)) = {v, w}
          /\ Len(get_all_dependants(allows_compute, u)) = 2

(***************************************************************************)
(* C28: repeated calls of change_node on one address do not pile up edges: *)
(* after change_node(a, D) the adjacency list of each d holds a once for   *)
(* each occurrence of d in D, and no list holds an edge into a that an     *)
(* earlier dependency list of a left.                                      *)
(***************************************************************************)
\* the number of edges u -> v that the graph g stores
EdgesBetween(g, u, v) == IF u \in DOMAIN g THEN Occurrences(g[u], v) ELSE 0

C28_ChangeNodeReplacesEdges ==
    \A a \in Addrs, D \in DepLists :
        \A d \in Addrs :
            EdgesBetween(change_node(allows_compute, a, D), d, a)
                = Occurrences(D, d)

\* a graph that stores d -> a twice from an earlier list of a, and none of
\* e -> a: change_node(a, <<e, e>>) leaves e -> a twice and d -> a not at all
C28_EarlierEdgesReplaced ==
    /\ cells = <<>>
    /\ \E a, d, e \in Addrs :
          /\ d # e /\ d # a
          /\ EdgesBetween(allows_compute, d, a) = 2
          /\ EdgesBetween(allows_compute, e, a) = 0
          /\ EdgesBetween(change_node(allows_compute, a, <<e, e>>), d, a) = 0
          /\ EdgesBetween(change_node(allows_compute, a, <<e, e>>), e, a) = 2

(***************************************************************************)
(* C29: edges stored more than once, as by a formula that names one cell   *)
(* twice (=A1+A1), change nothing: against the graph with each edge stored *)
(* once, topological_sort puts the same nodes in sorted and in cycles and  *)
(* keeps every edge's order, get_all_dependants returns the same set, and  *)
(* every edit leaves every cell with the same computed value.              *)
(***************************************************************************)
\* the list s with each member kept at its first place only
RECURSIVE Once(_)
Once(s) ==
    IF s = <<>> THEN <<>>
    ELSE IF SeqContains(Once(SubSeq(s, 1, Len(s) - 1)), s[Len(s)])
         THEN Once(SubSeq(s, 1, Len(s) - 1))
    ELSE Append(Once(SubSeq(s, 1, Len(s) - 1)), s[Len(s)])

\* the graph g with each edge stored once
EachEdgeOnce(g) == [n \in DOMAIN g |-> Once(g[n])]

\* the result t of a sort keeps the order of every edge of g that leads to
\* a node of sorted
KeepsOrder(g, t) ==
    \A u, v \in DOMAIN g :
        (HasEdge(g, u, v) /\ v \in Members(t.sorted)) => Before(t.sorted, u, v)

SameSort(g, h) ==
    \A order \in Perms(DOMAIN g) :
        /\ Members(topological_sort(g, order).sorted)
              = Members(topological_sort(h, order).sorted)
        /\ Members(topological_sort(g, order).cycles)
              = Members(topological_sort(h, order).cycles)
        /\ KeepsOrder(g, topological_sort(g, order))
        /\ KeepsOrder(g, topological_sort(h, order))

SameDependants(g, h) ==
    \A addr \in Addrs :
        Members(get_all_dependants(g, addr)) = Members(get_all_dependants(h, addr))

\* the computed values the outcomes of an edit leave
ComputedBy(outcomes) ==
    {[status |-> o.status,
      computed |-> [i \in DOMAIN o.cells |-> o.cells[i].computed_value]] :
        o \in outcomes}

SameEdits(g, h) ==
    \A a \in Addrs :
        /\ \A raw \in TwiceRaws :
              /\ ComputedBy(add_cell_and_compute(cells, g, a, raw))
                    = ComputedBy(add_cell_and_compute(cells, h, a, raw))
              /\ a \in Live =>
                    ComputedBy(mutate_cell(cells, g, a, raw))
                      = ComputedBy(mutate_cell(cells, h, a, raw))
        /\ ComputedBy(remove_cell(cells, g, a))
              = ComputedBy(remove_cell(cells, h, a))

C29_RepeatedEdgesChangeNothing ==
    Running =>
        /\ SameSort(allows_compute, EachEdgeOnce(allows_compute))
        /\ SameDependants(allows_compute, EachEdgeOnce(allows_compute))
        /\ SameEdits(allows_compute, EachEdgeOnce(allows_compute))

\* the graph stores d -> c twice and c -> e twice, all three cells hold
\* numbers, and removing d changes the value of e
C29_ReadersOfTwiceNamedCell ==
    /\ Running
    /\ \E d, c, e \in Live :
          /\ EdgesBetween(allows_compute, d, c) = 2
          /\ EdgesBetween(allows_compute, c, e) = 2
          /\ Held(d).ok /\ Held(c).ok /\ Held(e).ok
          /\ \E o \in remove_cell(cells, allows_compute, d) :
                /\ o.status = "running"
                /\ o.cells[e].computed_value # Held(e)

(***************************************************************************)
(* C30: after any sequence of insert, mutate of a live address and remove, *)
(* every node of the graph that an edge leads into holds a live cell; so   *)
(* every address that topological_sort reports in cycles is in the cell    *)
(* map when compute_all looks it up, and that lookup never fails.          *)
(***************************************************************************)
\* no edit of the claim, made on the sheet of the state, ends in a panic
NoLookupFails ==
    \A a \in Addrs :
        /\ \A raw \in Raws :
              /\ \A o \in add_cell_and_compute(cells, allows_compute, a, raw) :
                    o.status = "running"
              /\ a \in Live =>
                    \A o \in mutate_cell(cells, allows_compute, a, raw) :
                        o.status = "running"
        /\ \A o \in remove_cell(cells, allows_compute, a) : o.status = "running"

C30_NodesWithInEdgesAreLive ==
    Running =>
        /\ \A n \in DOMAIN allows_compute :
              InDegree(allows_compute, n) > 0 => n \in Live
        /\ \A t \in Sorts : Members(t.cycles) \subseteq Live
        /\ NoLookupFails

\* a cell of a loop has been removed: its node is left, with its edge to a
\* live cell that is still reported in cycles
C30_LoopCellRemoved ==
    /\ Running
    /\ \E a \in DOMAIN allows_compute \ Live, c, e \in Live :
          /\ c # e
          /\ HasEdge(allows_compute, a, c)
          /\ HasEdge(allows_compute, c, e) /\ HasEdge(allows_compute, e, c)
          /\ \A t \in Sorts : Members(t.cycles) = {c, e}

(***************************************************************************)
(* C31: when insert is only called on addresses that hold no cell, then    *)
(* after any sequence of insert, mutate and remove the edges of the graph  *)
(* are exactly the dependencies of the live cells: the graph stores d -> c *)
(* as many times as d stands in the dependency list of the live cell c,    *)
(* and not at all when c holds no cell or no parsed expression.  No stale  *)
(* edge survives a mutate or a remove.                                     *)
(***************************************************************************)
\* how many times the cell at c, on the sheet cs, depends on d
DependsOn(cs, c, d) ==
    IF c \in DOMAIN cs THEN Occurrences(DepsOf(cs[c]), d) ELSE 0

EdgesAreDependencies(cs, g) ==
    \A d \in Addrs \cup DOMAIN g, c \in Addrs \cup DOMAIN g :
        EdgesBetween(g, d, c) = DependsOn(cs, c, d)

\* every outcome of the set that returned has the edges of its cells
AllExact(outcomes) ==
    \A o \in outcomes :
        o.status = "running" => EdgesAreDependencies(o.cells, o.graph)

C31_EdgesAreDependencies ==
    Running =>
        /\ EdgesAreDependencies(cells, allows_compute)
        /\ \A a \in Addrs :
              /\ AllExact(remove_cell(cells, allows_compute, a))
              /\ \A raw \in Raws :
                    IF a \in Live
                    THEN AllExact(mutate_cell(cells, allows_compute, a, raw))
                    ELSE AllExact(add_cell_and_compute(cells, allows_compute,
                                                       a, raw))

\* a formula of two dependencies is live beside the node of a removed cell,
\* and a mutate of it to a formula of one dependency takes an edge out
C31_MutateTakesEdgesOut ==
    /\ Running
    /\ DOMAIN allows_compute \ Live # {}
    /\ \E c \in Live :
          /\ Len(DepsOf(cells[c])) = 2
          /\ \E raw \in Raws :
                \E o \in mutate_cell(cells, allows_compute, c, raw) :
                    /\ o.status = "running"
                    /\ Len(DepsOf(o.cells[c])) = 1
                    /\ EdgeCount(o.graph) = EdgeCount(allows_compute) - 1

(***************************************************************************)
(* tokenize_expression on texts that start with uppercase letters: a word, *)
(* then digits or none, then the rest of a formula or nothing.             *)
(***************************************************************************)
Words ==
    {<<"A">>, <<"A", "B">>, <<"T">>, <<"T", "R", "U", "E">>,
     <<"F", "A", "L", "S", "E">>, <<"T", "R", "U", "E", "A">>,
     <<"X", "T", "R", "U", "E">>}

DigitRuns == {<<>>, <<"1">>, <<"2">>, <<"1", "2">>}

Rests == {<<>>, <<" ">>, <<"+", "1">>, <<" ", "*", " ", "B", "2">>}

WordInputs == {w \o d \o r : w \in Words, d \in DigitRuns, r \in Rests}

InitWords ==
    /\ cells = <<>>
    /\ allows_compute = <<>>
    /\ overflow_checks = FALSE
    /\ status = "running"
    /\ stopped_in = NoOp
    /\ input \in WordInputs
    /\ output = <<>>

NextWords == Tokenize

SpecWords == InitWords /\ [][NextWords]_vars

\* the uppercase ASCII letters the text starts with, and the ASCII digits
\* that follow them
LettersRun(chars) == SubSeq(chars, 1, RunEnd(chars, 1, AsciiUpper) - 1)

DigitsRun(chars) ==
    SubSeq(chars, RunEnd(chars, 1, AsciiUpper),
           RunEnd(chars, RunEnd(chars, 1, AsciiUpper), AsciiDigit) - 1)

(***************************************************************************)
(* C32: a maximal run of uppercase ASCII letters followed at once by ASCII *)
(* digits is one CellName token of the letters and the digits, also when   *)
(* the letters spell TRUE or FALSE (TRUE1, FALSE2); TRUE and FALSE with no *)
(* digit after them are Bool tokens, and any other run of uppercase        *)
(* letters with no digit after it is InvalidCellName.                      *)
(***************************************************************************)
FirstTokenIs(r, tok) == r.ok /\ r.tokens # <<>> /\ r.tokens[1] = tok

C32_UppercaseRuns ==
    output # <<>> =>
        IF DigitsRun(input) # <<>>
        THEN FirstTokenIs(output[1],
                          Tok("CellName", LettersRun(input) \o DigitsRun(input)))
        ELSE IF LettersRun(input) = <<"T", "R", "U", "E">>
             THEN FirstTokenIs(output[1], Tok("Bool", TRUE))
        ELSE IF LettersRun(input) = <<"F", "A", "L", "S", "E">>
             THEN FirstTokenIs(output[1], Tok("Bool", FALSE))
        ELSE ~output[1].ok /\ output[1].err = "InvalidCellName"
                /\ output[1].arg = LettersRun(input)

(***************************************************************************)
(* The AST builder on its own: ASTCreator::new(tokens).parse() applied to  *)
(* one token stream; input is the stream, output holds the result.         *)
(***************************************************************************)
BinaryOperators ==
    {"Plus", "Minus", "Multiply", "Division", "Equals", "NotEquals",
     "GreaterThan", "LessThan", "GreaterEquals", "LessEquals", "And", "Or"}

OperandA == Tok("CellName", <<"A", "1">>)

OperandB == Tok("CellName", <<"B", "2">>)

OperandC == Tok("CellName", <<"C", "3">>)

NotToken == Tok("Not", <<>>)

OpToken(op) == Tok(op, <<>>)

\* a op1 b op2 c
TwoOperatorStreams ==
    {<<OperandA, OpToken(op1), OperandB, OpToken(op2), OperandC>> :
        op1 \in BinaryOperators, op2 \in BinaryOperators}

\* ! a op b, a op ! b, and the stream of test_logical_operator_precedence
PrefixNotStreams ==
    {<<NotToken, OperandA, OpToken(op), OperandB>> : op \in BinaryOperators}
    \cup {<<OperandA, OpToken(op), NotToken, OperandB>> : op \in BinaryOperators}
    \cup {<<NotToken, OperandA, OpToken("And"), Tok("Bool", TRUE),
            OpToken("Or"), Tok("Bool", FALSE)>>,
          <<NotToken, OperandA>>, <<NotToken, NotToken, OperandA>>}

\* a !, TRUE !, a ! op b, a op b !
PostfixNotStreams ==
    {<<OperandA, NotToken, OpToken(op), OperandB>> : op \in BinaryOperators}
    \cup {<<OperandA, OpToken(op), OperandB, NotToken>> : op \in BinaryOperators}
    \cup {<<OperandA, NotToken>>, <<Tok("Bool", TRUE), NotToken>>,
          <<Tok("Number", Frac(1, 1)), NotToken>>,
          <<NotToken, OperandA, NotToken>>}

TokenStreams == TwoOperatorStreams \cup PrefixNotStreams \cup PostfixNotStreams

InitParses ==
    /\ cells = <<>>
    /\ allows_compute = <<>>
    /\ overflow_checks = FALSE
    /\ status = "running"
    /\ stopped_in = NoOp
    /\ input \in TokenStreams
    /\ output = <<>>

BuildAst ==
    /\ output = <<>>
    /\ output' = <<parse(input)>>
    /\ UNCHANGED input
    /\ SheetUntouched

NextParses == BuildAst

SpecParses == InitParses /\ [][NextParses]_vars

\* the built tree, when the stream was accepted
ParsedAs(ast) == output # <<>> /\ output[1].ok /\ output[1].ast = ast

\* the tree of an operand token
Leaf(token) ==
    IF token.t = "CellName" THEN AstCellName(token.p)
    ELSE IF token.t = "Bool" THEN AstValue(Bool(token.p))
    ELSE AstValue(Number(token.p))

IsOperand(token) == token.t \in {"CellName", "Bool", "Number"}

IsBinary(token) == token.t \in BinaryOperators

\* x op1 y op2 z
ThreeOperands(tokens) ==
    /\ Len(tokens) = 5
    /\ IsOperand(tokens[1]) /\ IsBinary(tokens[2]) /\ IsOperand(tokens[3])
    /\ IsBinary(tokens[4]) /\ IsOperand(tokens[5])

\* (x op1 y) op2 z
LeftNested(tokens) ==
    AstBinaryOp(tokens[4].t,
                AstBinaryOp(tokens[2].t, Leaf(tokens[1]), Leaf(tokens[3])),
                Leaf(tokens[5]))

\* x op1 (y op2 z)
RightNested(tokens) ==
    AstBinaryOp(tokens[2].t, Leaf(tokens[1]),
                AstBinaryOp(tokens[4].t, Leaf(tokens[3]), Leaf(tokens[5])))

\* ! x op y
NotThenBinary(tokens) ==
    /\ Len(tokens) = 4
    /\ tokens[1].t = "Not" /\ IsOperand(tokens[2])
    /\ IsBinary(tokens[3]) /\ IsOperand(tokens[4])

\* x op ! y
BinaryThenNot(tokens) ==
    /\ Len(tokens) = 4
    /\ IsOperand(tokens[1]) /\ IsBinary(tokens[2])
    /\ tokens[3].t = "Not" /\ IsOperand(tokens[4])

\* C33: of two binary operators of different precedence the higher one is
\* nested beneath the lower one whichever comes first, and a prefix ! takes
\* only the primary after it, beneath every binary operator
C33_HigherPrecedenceNestsBeneath ==
    output # <<>> =>
        /\ (ThreeOperands(input)
            /\ get_precedence(input[2].t) > get_precedence(input[4].t))
              => ParsedAs(LeftNested(input))
        /\ (ThreeOperands(input)
            /\ get_precedence(input[2].t) < get_precedence(input[4].t))
              => ParsedAs(RightNested(input))
        /\ NotThenBinary(input)
              => ParsedAs(AstBinaryOp(input[3].t,
                                   AstUnaryOp("Not", Leaf(input[2])),
                                   Leaf(input[4])))
        /\ BinaryThenNot(input)
              => ParsedAs(AstBinaryOp(input[2].t, Leaf(input[1]),
                                   AstUnaryOp("Not", Leaf(input[4]))))

\* A1 * B2 + C3 was built with the product on the left, beneath the sum
C33_ProductFirstBeneathSum ==
    /\ input = <<OperandA, OpToken("Multiply"), OperandB, OpToken("Plus"),
                 OperandC>>
    /\ ParsedAs(AstBinaryOp("Plus",
                         AstBinaryOp("Multiply", AstCellName(<<"A", "1">>),
                                     AstCellName(<<"B", "2">>)),
                         AstCellName(<<"C", "3">>)))

\* C34: two binary operators of the same precedence level associate to the
\* left: a op1 b op2 c is built as (a op1 b) op2 c
C34_SameLevelAssociatesLeft ==
    (output # <<>> /\ ThreeOperands(input)
     /\ get_precedence(input[2].t) = get_precedence(input[4].t))
        => ParsedAs(LeftNested(input))

\* A1 - B2 + C3 was built with the difference on the left of the sum
C34_DifferenceThenSum ==
    /\ input = <<OperandA, OpToken("Minus"), OperandB, OpToken("Plus"),
                 OperandC>>
    /\ ParsedAs(AstBinaryOp("Plus",
                         AstBinaryOp("Minus", AstCellName(<<"A", "1">>),
                                     AstCellName(<<"B", "2">>)),
                         AstCellName(<<"C", "3">>)))

\* a ! stands right after a complete operand
NotAfterOperand(tokens) ==
    \E i \in 2..Len(tokens) :
        tokens[i].t = "Not" /\ IsOperand(tokens[i - 1])

\* C35: a stream in which ! follows a complete operand is rejected with
\* UnexpectedToken and no UnaryOp is built from it
C35_PostfixNotRejected ==
    (output # <<>> /\ NotAfterOperand(input))
        => ~output[1].ok /\ output[1].err = "UnexpectedToken"

(***************************************************************************)
(* The evaluator on its own: ASTResolver::resolve applied to the tree of a *)
(* formula, against a sheet of numbers, a text and a cell in error.  input *)
(* holds the tree, output the result.                                      *)
(***************************************************************************)
EvalAddrs == {A1, A2, A3}

\* two numbers, a text, and a formula that fails to parse
EvalRaws == {<<"1">>, <<"2">>, <<"a">>, <<"=", "1", "+">>}

RangeTexts ==
    {<<"s", "u", "m", "(", "A", "1", ":", "A", "3", ")">>,
     <<"s", "u", "m", "(", "A", "3", ":", "A", "1", ")">>,
     <<"s", "u", "m", "(", "B", "1", ":", "A", "1", ")">>,
     <<"s", "u", "m", "(", "A", "1", ":", "A", "2", ",", "5", ")">>,
     <<"s", "u", "m", "(", "5", ",", "A", "2", ":", "A", "3", ")">>,
     <<"p", "o", "w", "(", "A", "1", ":", "A", "2", ")">>,
     <<"p", "o", "w", "(", "2", ",", "A", "1", ":", "A", "1", ")">>,
     <<"p", "o", "w", "(", "A", "1", ":", "A", "1", ",", "2", ")">>,
     <<"f", "o", "o", "(", "A", "1", ":", "A", "2", ")">>}

\* a Range where no function takes it
StrayRangeTexts ==
    {<<"A", "1", ":", "A", "3">>,
     <<"A", "1", ":", "A", "3", "+", "1">>,
     <<"1", "+", "A", "1", ":", "A", "3">>,
     <<"A", "1", ":", "A", "2", "<", "1">>,
     <<"T", "R", "U", "E", "&", "&", "A", "1", ":", "A", "2">>,
     <<"!", "A", "1", ":", "A", "2">>,
     <<"s", "u", "m", "(", "A", "1", ":", "A", "3", "+", "1", ")">>,
     <<"s", "u", "m", "(", "1", ",", "2", "*", "A", "1", ":", "A", "3", ")">>}

ComparisonTexts ==
    {<<"1", "<", "2">>, <<"2", "<", "1">>, <<"1", ">", "2">>,
     <<"2", ">", "1">>, <<"1", "<", "=", "1">>, <<"2", "<", "=", "1">>,
     <<"1", ">", "=", "2">>, <<"2", ">", "=", "2">>,
     <<"1", "=", "=", "1">>, <<"1", "=", "=", "2">>,
     <<"1", "!", "=", "1">>, <<"1", "!", "=", "2">>,
     <<"T", "R", "U", "E", "=", "=", "F", "A", "L", "S", "E">>,
     <<"A", "1", "=", "=", "A", "2">>, <<"A", "1", "<", "A", "2">>,
     <<"T", "R", "U", "E", "&", "&", "F", "A", "L", "S", "E">>,
     <<"T", "R", "U", "E", "&", "&", "T", "R", "U", "E">>,
     <<"F", "A", "L", "S", "E", "|", "|", "T", "R", "U", "E">>,
     <<"F", "A", "L", "S", "E", "|", "|", "F", "A", "L", "S", "E">>,
     <<"!", "T", "R", "U", "E">>, <<"!", "F", "A", "L", "S", "E">>,
     <<"1", "<", "T", "R", "U", "E">>, <<"1", "&", "&", "T", "R", "U", "E">>,
     <<"T", "R", "U", "E", "|", "|", "1">>, <<"!", "1">>,
     <<"1", "+", "2">>, <<"1", "+", "T", "R", "U", "E">>}

CallTexts ==
    {<<"s", "u", "m", "(", "1", ",", "2", ")">>,
     <<"s", "u", "m", "(", "A", "1", ")">>,
     <<"s", "u", "m", "(", "1", ",", "T", "R", "U", "E", ")">>,
     <<"s", "u", "m", "(", "T", "R", "U", "E", ",", "A", "1", ")">>,
     <<"f", "o", "o", "(", "1", ")">>,
     <<"f", "o", "o", "(", "A", "2", ")">>,
     <<"f", "o", "o", "(", "1", "+", "T", "R", "U", "E", ")">>}

FormulaTexts == RangeTexts \cup StrayRangeTexts \cup ComparisonTexts \cup CallTexts

\* the tree the parser builds for a text, built once
FormulaAsts ==
    [text \in FormulaTexts |-> parse(tokenize_expression(text).tokens)]

InsertValue ==
    /\ output = <<>>
    /\ \E index \in EvalAddrs, raw \in EvalRaws : InsertAt(index, raw)

ResolveAst(ast) ==
    /\ output = <<>>
    /\ input' = <<ast>>
    /\ output' = <<resolve(ast, cells)>>
    /\ SheetUntouched

Resolve ==
    \E text \in FormulaTexts :
        FormulaAsts[text].ok /\ ResolveAst(FormulaAsts[text].ast)

NextResolves == InsertValue \/ Resolve

SpecResolves == Init /\ [][NextResolves]_vars

\* the indices from the corner from to the corner to, column by column
RangeSet(from, to) ==
    {<<x, y>> : x \in from[1]..to[1], y \in from[2]..to[2]}

RECURSIVE InOrder(_)
InOrder(S) ==
    IF S = {} THEN <<>>
    ELSE LET first == CHOOSE i \in S :
                          \A j \in S : i[1] < j[1] \/ (i[1] = j[1] /\ i[2] <= j[2])
         IN  <<first>> \o InOrder(S \ {first})

ValuesAt(cs, indices) ==
    SelectSeq([i \in 1..Len(indices) |-> get_computed(cs, indices[i])], IsSome)

\* what an argument stands for: its literal, or the values of the present
\* cells of its range
Stands(cs, argument) ==
    IF argument.k = "Range"
    THEN ValuesAt(cs, InOrder(RangeSet(get_cell_idx(argument.name).idx,
                                       get_cell_idx(argument.to).idx)))
    ELSE <<Ok(argument.value)>>

RECURSIVE StandFor(_, _)
StandFor(cs, arguments) ==
    IF arguments = <<>> THEN <<>>
    ELSE Stands(cs, Head(arguments)) \o StandFor(cs, Tail(arguments))

FirstErr(results) ==
    results[CHOOSE i \in 1..Len(results) :
               ~results[i].ok /\ \A j \in 1..(i - 1) : results[j].ok]

\* the call of name on results, the first error among them before the call
CalledOn(name, results) ==
    IF \E i \in 1..Len(results) : ~results[i].ok THEN FirstErr(results)
    ELSE IF name \in FuncNames
         THEN apply_func(name, [i \in 1..Len(results) |-> results[i].v])
    ELSE UnknownFunction

LiteralsAndRanges(ast) ==
    /\ ast.k = "FunctionCall"
    /\ \A i \in 1..Len(ast.kids) : ast.kids[i].k \in {"Value", "Range"}

\* a call whose one argument is a range with a corner before its first one
ReversedRange(ast) ==
    /\ ast.k = "FunctionCall" /\ Len(ast.kids) = 1 /\ ast.kids[1].k = "Range"
    /\ \E i \in 1..2 : get_cell_idx(ast.kids[1].name).idx[i]
                          > get_cell_idx(ast.kids[1].to).idx[i]

NoneLive(cs, ast) ==
    /\ ast.k = "FunctionCall" /\ Len(ast.kids) = 1 /\ ast.kids[1].k = "Range"
    /\ \A index \in RangeSet(get_cell_idx(ast.kids[1].name).idx,
                             get_cell_idx(ast.kids[1].to).idx) :
           index \notin DOMAIN cs

\* C36: a Range argument of a call stands for the values of the present
\* cells of its rectangle, absent cells skipped, in argument order with the
\* other arguments; the error of a present cell is the call's result; a sum
\* over absent cells, or over a range whose first corner lies after its
\* second, is 0
C36_RangeArgumentExpands ==
    output # <<>> =>
        /\ LiteralsAndRanges(input[1])
              => output[1] = CalledOn(input[1].name, StandFor(cells, input[1].kids))
        /\ (input[1].name = <<"s", "u", "m">>
            /\ (ReversedRange(input[1]) \/ NoneLive(cells, input[1])))
              => output[1] = Ok(Num(0))

\* sum(A1:A3) was resolved with 1 at A1, nothing at A2 and 2 at A3, and is 3
C36_SumSkipsAbsent ==
    /\ output = <<Ok(Num(3))>>
    /\ input = <<FormulaAsts[<<"s", "u", "m", "(", "A", "1", ":", "A", "3", ")">>].ast>>
    /\ DOMAIN cells = {A1, A3}
    /\ cells[A1].computed_value = Ok(Num(1))
    /\ cells[A3].computed_value = Ok(Num(2))

\* a Range that is not itself an argument of a call
RECURSIVE StrayRange(_)
StrayRange(ast) ==
    \/ ast.k = "Range"
    \/ /\ ast.k \in {"BinaryOp", "UnaryOp"}
       /\ \E i \in 1..Len(ast.kids) : StrayRange(ast.kids[i])
    \/ /\ ast.k = "FunctionCall"
       /\ \E i \in 1..Len(ast.kids) :
              ast.kids[i].k # "Range" /\ StrayRange(ast.kids[i])

\* no leaf is a cell name, whose lookup may fail before the range is met
RECURSIVE NoCellNames(_)
NoCellNames(ast) ==
    /\ ast.k # "CellName"
    /\ \A i \in 1..Len(ast.kids) : NoCellNames(ast.kids[i])

\* C37: a Range that is the whole formula, an operand of a binary or unary
\* operator, or inside the expression of an argument, resolves to TypeError
C37_StrayRangeIsTypeError ==
    (output # <<>> /\ StrayRange(input[1]) /\ NoCellNames(input[1]))
        => output[1] = TypeError

Orderings == {"LessThan", "GreaterThan", "LessEquals", "GreaterEquals"}

\* both operands of a binary operator, or the operand of a unary one, are
\* literals
OnLiterals(ast) ==
    /\ ast.k \in {"BinaryOp", "UnaryOp"}
    /\ \A i \in 1..Len(ast.kids) : ast.kids[i].k = "Value"

\* the Bool a comparison of the numbers a and b stands for
Ordered(op, a, b) ==
    CASE op = "LessThan" -> FLess(a, b)
      [] op = "GreaterThan" -> FLess(b, a)
      [] op = "LessEquals" -> ~FLess(b, a)
      [] op = "GreaterEquals" -> ~FLess(a, b)

\* what the claim gives for op on the literals l and r
Compared(op, l, r) ==
    IF op \in Orderings
    THEN IF l.k = "Number" /\ r.k = "Number"
         THEN Ok(Bool(Ordered(op, NumOf(l), NumOf(r)))) ELSE TypeError
    ELSE IF op = "Equals" THEN Ok(Bool(l = r))
    ELSE IF op = "NotEquals" THEN Ok(Bool(l # r))
    ELSE IF l.k = "Bool" /\ r.k = "Bool"
         THEN Ok(Bool(IF op = "And" THEN l.b /\ r.b ELSE l.b \/ r.b))
    ELSE TypeError

Negated(v) == IF v.k = "Bool" THEN Ok(Bool(~v.b)) ELSE TypeError

\* C38: < > <= >= on two Numbers, == and != on two values, && and || on two
\* Bools yield a Bool, ! on a Bool its negation, a mismatch of types
\* TypeError; resolve returns a value or a ComputeError for every tree the
\* parser builds
C38_ComparisonsYieldBool ==
    output # <<>> =>
        /\ ~IsPanic(output[1])
        /\ (OnLiterals(input[1]) /\ input[1].k = "BinaryOp"
            /\ input[1].op \in Orderings \cup {"Equals", "NotEquals", "And", "Or"})
              => output[1] = Compared(input[1].op, input[1].kids[1].value,
                                      input[1].kids[2].value)
        /\ (OnLiterals(input[1]) /\ input[1].k = "UnaryOp")
              => output[1] = Negated(input[1].kids[1].value)

\* the values the arguments of the call ast resolve to, or their first error
Arguments(ast, cs) == resolve_arguments(ast.kids, 1, cs, <<>>)

\* C39: sum returns the Number that is the total of its values, 0 for none,
\* and TypeError when a value is not a Number; a name outside the table
\* yields UnknownFunction once the arguments resolved without error
C39_SumAndUnknownFunction ==
    (output # <<>> /\ input[1].k = "FunctionCall" /\ Arguments(input[1], cells).ok)
        => /\ input[1].name = <<"s", "u", "m">>
                => output[1] = IF AllNumbers(Arguments(input[1], cells).args)
                               THEN Ok(Number(FSum(Arguments(input[1], cells).args)))
                               ELSE TypeError
           /\ input[1].name \notin FuncNames => output[1] = UnknownFunction

====
